---- MODULE Spec2Model ----
(***************************************************************************)
(* A model of the recipe application.  Its text-processing core:           *)
(*   extract_recipe_name      (src/utils.py)                               *)
(*   create_recipe_card_html  (src/utils.py)                               *)
(*   SavedRecipesManager._clean_display_name (src/saved_recipes.py)        *)
(*   SavedRecipesManager.filter_recipes      (src/saved_recipes.py)        *)
(* and the Streamlit script src/main.py with the session it keeps between  *)
(* its runs: the account (src/auth.py), the saved recipes                  *)
(* (src/saved_recipes.py) and the meal planner (src/meal_planner.py).      *)
(*                                                                         *)
(* Python strings are TLA+ strings; TLC's Sequences operators (Len,        *)
(* SubSeq, \o, Head, Tail) work on them character by character.  The one   *)
(* non-ASCII character the code tests for, the bullet U+2022, is written   *)
(* as the single character BulletChar.                                     *)
(***************************************************************************)
EXTENDS Integers, Sequences, FiniteSets, TLC

VARIABLES
    pc,                   \* "ready" before the call, "done" after it
    recipe_content,       \* argument of extract_recipe_name
    recipe_name,          \* its return value
    recipe_card_content,  \* argument of create_recipe_card_html
    html_lines,           \* the block output accumulated by its line loop
    full_html,            \* its return value
    name,                 \* argument of _clean_display_name
    max_len,              \* argument of _clean_display_name
    display_name,         \* its return value
    frames,               \* the local variables of the calls that run step by step
    session,              \* st.session_state: the keys present and their values
    saved_recipes,        \* the rows of the table saved_recipes
    meal_plans,           \* the rows of the table meal_plans
    today,                \* date.today(), in days; day 0 is a Monday
    screen,               \* the buttons and options the last script run rendered
    rerun,                \* a script run is due: the first load, or st.rerun()
    last,                 \* the last script run: its event, the view it dispatched
                          \* and the manager calls it made
    all_recipes,          \* argument of filter_recipes
    filtered_recipes      \* its return value

\* the variables of the text functions
textVars == <<pc, recipe_content, recipe_name, recipe_card_content, html_lines,
              full_html, name, max_len, display_name, frames>>

\* the variables of the Streamlit application
appVars == <<session, saved_recipes, meal_plans, today, screen, rerun, last,
             all_recipes, filtered_recipes>>

vars == <<textVars, appVars>>

\* no script run has taken place and no list is being filtered
AppIdle ==
    /\ session = <<>>
    /\ saved_recipes = {}
    /\ meal_plans = {}
    /\ today = 0
    /\ screen = {}
    /\ rerun = FALSE
    /\ last = <<>>
    /\ all_recipes = <<>>
    /\ filtered_recipes = <<>>

-----------------------------------------------------------------------------
(* Bounds of the model *)

\* the number of lines of a title input built from CoreTitleLines
MaxTitleLines == 3

\* the number of lines of a recipe-card input built from CoreCardLines
MaxCardLines == 3

\* the number of marker characters put around a stored name
MaxDecoration == 2

\* the number of calls that run at the same time
NumCalls == 2

\* the weeks the planner moves away from day 0, in either direction
MaxWeeks == 1

\* the midnights that pass after the first Sunday
MaxDays == 1

\* the number of recipes of a list handed to filter_recipes
MaxRecipeList == 2

-----------------------------------------------------------------------------
(* Python str primitives *)

\* str.strip() / \s : the ASCII whitespace characters
WhiteSpace == {" ", "\t", "\n", "\r", "\f"}

Digits == {"0", "1", "2", "3", "4", "5", "6", "7", "8", "9"}

\* the character standing for U+2022
BulletChar == "@"

UpperLetters == "ABCDEFGHIJKLMNOPQRSTUVWXYZ"
LowerLetters == "abcdefghijklmnopqrstuvwxyz"

At(s, i) == SubSeq(s, i, i)

MinOf(S) == CHOOSE x \in S : \A y \in S : x <= y
MaxOf(S) == CHOOSE x \in S : \A y \in S : x >= y

\* s[:n]
Take(s, n) == SubSeq(s, 1, IF n < Len(s) THEN n ELSE Len(s))

\* s[n:]  (n counts the characters dropped)
Drop(s, n) == SubSeq(s, n + 1, Len(s))

\* s.startswith(p)
StartsWith(s, p) == Len(s) >= Len(p) /\ SubSeq(s, 1, Len(p)) = p

\* s.endswith(p)
EndsWith(s, p) == Len(s) >= Len(p) /\ SubSeq(s, Len(s) - Len(p) + 1, Len(s)) = p

\* p in s
Contains(s, p) == \E i \in 1..(Len(s) - Len(p) + 1) : SubSeq(s, i, i + Len(p) - 1) = p

\* s.lstrip(chars)
LStripChars(s, chars) ==
    LET keep == {i \in 1..Len(s) : At(s, i) \notin chars}
    IN  IF keep = {} THEN "" ELSE SubSeq(s, MinOf(keep), Len(s))

\* s.rstrip(chars)
RStripChars(s, chars) ==
    LET keep == {i \in 1..Len(s) : At(s, i) \notin chars}
    IN  IF keep = {} THEN "" ELSE SubSeq(s, 1, MaxOf(keep))

\* s.strip()
Strip(s) == RStripChars(LStripChars(s, WhiteSpace), WhiteSpace)

\* s.replace(c, '') for every character c of chars (computed by halves)
RECURSIVE RemoveChars(_, _)
RemoveChars(s, chars) ==
    IF s = "" THEN ""
    ELSE IF Len(s) = 1 THEN (IF s \in chars THEN "" ELSE s)
    ELSE RemoveChars(SubSeq(s, 1, Len(s) \div 2), chars)
             \o RemoveChars(SubSeq(s, Len(s) \div 2 + 1, Len(s)), chars)

UpperSet == {At(UpperLetters, i) : i \in 1..26}
LowerOf == [c \in UpperSet |-> At(LowerLetters, CHOOSE i \in 1..26 : At(UpperLetters, i) = c)]

LowerChar(c) == IF c \in UpperSet THEN LowerOf[c] ELSE c

\* s.lower() (computed by halves)
RECURSIVE Lower(_)
Lower(s) ==
    IF s = "" THEN ""
    ELSE IF Len(s) = 1 THEN LowerChar(s)
    ELSE Lower(SubSeq(s, 1, Len(s) \div 2)) \o Lower(SubSeq(s, Len(s) \div 2 + 1, Len(s)))

\* s.split('\n')
RECURSIVE SplitLines(_)
SplitLines(s) ==
    LET nl == {i \in 1..Len(s) : At(s, i) = "\n"}
    IN  IF nl = {} THEN <<s>>
        ELSE <<SubSeq(s, 1, MinOf(nl) - 1)>> \o SplitLines(Drop(s, MinOf(nl)))

\* '\n'.join(lines)
RECURSIVE JoinLines(_)
JoinLines(lines) ==
    IF Len(lines) = 0 THEN ""
    ELSE IF Len(lines) = 1 THEN lines[1]
    ELSE lines[1] \o "\n" \o JoinLines(Tail(lines))

\* s * n
RECURSIVE Repeat(_, _)
Repeat(s, n) == IF n = 0 THEN "" ELSE s \o Repeat(s, n - 1)

-----------------------------------------------------------------------------
(* extract_recipe_name, src/utils.py:100-182 *)

\* name[:80] / clean[:80] / len(clean) <= 80
TitleMax == 80

UntitledRecipe == "Untitled Recipe"

\* the result of a pass that returned nothing
NoName == [found |-> FALSE, name |-> ""]
Found(n) == [found |-> TRUE, name |-> n]

\* Pass 1, section_words
HeadingSectionWords ==
    {"ingredients", "instructions", "directions", "steps",
     "tips", "notes", "shopping", "servings"}

\* Pass 1: name = stripped.lstrip('#').strip()
HeadingName(line) == Strip(LStripChars(Strip(line), {"#"}))

\* HeadingQualifies without the minimum length of three
HeadingQualifies_NoMinLen(line) ==
    /\ StartsWith(Strip(line), "#")
    /\ LET n == HeadingName(line)
           lower == Lower(n)
       IN  ~ \E w \in HeadingSectionWords : StartsWith(lower, w)

\* HeadingQualifies that lets the section heading 'ingredients' through
HeadingQualifies_IngredientsPass(line) ==
    /\ StartsWith(Strip(line), "#")
    /\ LET n == HeadingName(line)
           lower == Lower(n)
       IN  /\ Len(n) >= 3
           /\ ~ \E w \in HeadingSectionWords \ {"ingredients"} : StartsWith(lower, w)

\* Pass 1: the test that makes a line return
HeadingQualifies(line) ==
    /\ StartsWith(Strip(line), "#")
    /\ LET n == HeadingName(line)
           lower == Lower(n)
       IN  /\ Len(n) >= 3
           /\ ~ \E w \in HeadingSectionWords : StartsWith(lower, w)

\* s cut at TitleMax characters and then back to before its last whitespace
CutAtWord(s) ==
    LET ws == {i \in 1..TitleMax : At(s, i) \in WhiteSpace}
    IN  IF Len(s) <= TitleMax \/ ws = {} THEN Take(s, TitleMax)
        ELSE SubSeq(s, 1, MaxOf(ws) - 1)

\* HeadingPass that cuts a long heading back to a word boundary
RECURSIVE HeadingPass_CutAtWord(_)
HeadingPass_CutAtWord(lines) ==
    IF Len(lines) = 0 THEN NoName
    ELSE IF HeadingQualifies(lines[1])
         THEN Found(CutAtWord(HeadingName(lines[1])))
         ELSE HeadingPass_CutAtWord(Tail(lines))

\* Pass 1: the loop over the lines
RECURSIVE HeadingPass(_)
HeadingPass(lines) ==
    IF Len(lines) = 0 THEN NoName
    ELSE IF HeadingQualifies(lines[1])
         THEN Found(Take(HeadingName(lines[1]), TitleMax))
         ELSE HeadingPass(Tail(lines))

\* Pass 2, section_words
BoldSectionWords ==
    {"ingredients", "instructions", "directions", "steps",
     "tips", "notes", "servings", "prep time", "cook time",
     "total time", "shopping"}

\* Pass 2: re.match(r'^\*\*(.+?)\*\*$', stripped): the line opens and closes with
\* '**' and has at least one character between them; the lazy group grows until
\* the closing '**' is the end of the line
BoldMatches(line) ==
    /\ Len(Strip(line)) >= 5
    /\ StartsWith(Strip(line), "**")
    /\ EndsWith(Strip(line), "**")

\* Pass 2: name = match.group(1).strip()
BoldName(line) == Strip(SubSeq(Strip(line), 3, Len(Strip(line)) - 2))

\* Pass 2: the test that makes a line return
BoldQualifies(line) ==
    /\ BoldMatches(line)
    /\ LET n == BoldName(line)
           lower == Lower(n)
       IN  /\ Len(n) >= 3
           /\ ~ \E w \in BoldSectionWords : StartsWith(lower, w)

\* Pass 2: the loop over the lines
RECURSIVE BoldPass(_)
BoldPass(lines) ==
    IF Len(lines) = 0 THEN NoName
    ELSE IF BoldQualifies(lines[1])
         THEN Found(Take(BoldName(lines[1]), TitleMax))
         ELSE BoldPass(Tail(lines))

\* Pass 3, intro_patterns
IntroPatterns ==
    {"here", "suggest", "perfect", "delicious", "enjoy",
     "this is", "try this", "sure!", "absolutely", "great choice"}

\* Pass 3, the metadata list
MetadataPatterns ==
    {"servings:", "prep time:", "cook time:", "total time:",
     "ingredients:", "instructions:", "directions:", "---"}

\* re.match(r'^\d+[\.\)]\s', stripped)
NumberedStep(stripped) ==
    \E k \in 1..(Len(stripped) - 2) :
        /\ \A i \in 1..k : At(stripped, i) \in Digits
        /\ At(stripped, k + 1) \in {".", ")"}
        /\ At(stripped, k + 2) \in WhiteSpace

\* FirstLineSkipped that looks for the filler words as whole words
FirstLineSkipped_WholeWords(stripped) ==
    \/ LET lower == Lower(stripped)
       IN  \/ \E p \in IntroPatterns : Contains(" " \o lower \o " ", " " \o p \o " ")
           \/ \E p \in MetadataPatterns : Contains(lower, p)
    \/ StartsWith(stripped, "-")
    \/ StartsWith(stripped, BulletChar)
    \/ NumberedStep(stripped)

\* FirstLineSkipped that takes '---' for the whole line and not for a part of it
FirstLineSkipped_ExactRule(stripped) ==
    \/ LET lower == Lower(stripped)
       IN  \/ \E p \in IntroPatterns : Contains(lower, p)
           \/ \E p \in MetadataPatterns \ {"---"} : Contains(lower, p)
           \/ lower = "---"
    \/ StartsWith(stripped, "-")
    \/ StartsWith(stripped, BulletChar)
    \/ NumberedStep(stripped)

\* Pass 3: the four 'continue' tests after the blank-line test
FirstLineSkipped(stripped) ==
    \/ LET lower == Lower(stripped)
       IN  \/ \E p \in IntroPatterns : Contains(lower, p)
           \/ \E p \in MetadataPatterns : Contains(lower, p)
    \/ StartsWith(stripped, "-")
    \/ StartsWith(stripped, BulletChar)
    \/ NumberedStep(stripped)

\* stripped.replace('#', '').replace('*', '').strip()
CleanMarkdown(line) == Strip(RemoveChars(Strip(line), {"#", "*"}))

\* Pass 3: the test that makes a line return
FirstLineQualifies(line) ==
    LET stripped == Strip(line)
        clean == CleanMarkdown(line)
    IN  /\ stripped # ""
        /\ ~ FirstLineSkipped(stripped)
        /\ 3 <= Len(clean)
        /\ Len(clean) <= TitleMax

\* FirstLinePass that returns the first surviving line of three characters or
\* more, cut to TitleMax characters when it is longer
RECURSIVE FirstLinePass_CutsLong(_)
FirstLinePass_CutsLong(lines) ==
    IF Len(lines) = 0 THEN NoName
    ELSE IF /\ Strip(lines[1]) # ""
            /\ ~ FirstLineSkipped(Strip(lines[1]))
            /\ 3 <= Len(CleanMarkdown(lines[1]))
         THEN Found(Take(CleanMarkdown(lines[1]), TitleMax))
         ELSE FirstLinePass_CutsLong(Tail(lines))

\* Pass 3: the loop over the lines
RECURSIVE FirstLinePass(_)
FirstLinePass(lines) ==
    IF Len(lines) = 0 THEN NoName
    ELSE IF FirstLineQualifies(lines[1])
         THEN Found(CleanMarkdown(lines[1]))
         ELSE FirstLinePass(Tail(lines))

\* Fallback: the test that makes a line return
FallbackQualifies(line) ==
    LET clean == CleanMarkdown(line) IN clean # "" /\ Len(clean) > 3

\* FallbackPass that returns the line uncut
RECURSIVE FallbackPass_NoCut(_)
FallbackPass_NoCut(lines) ==
    IF Len(lines) = 0 THEN NoName
    ELSE IF FallbackQualifies(lines[1])
         THEN Found(CleanMarkdown(lines[1]))
         ELSE FallbackPass_NoCut(Tail(lines))

\* Fallback: the loop over the lines
RECURSIVE FallbackPass(_)
FallbackPass(lines) ==
    IF Len(lines) = 0 THEN NoName
    ELSE IF FallbackQualifies(lines[1])
         THEN Found(Take(CleanMarkdown(lines[1]), TitleMax))
         ELSE FallbackPass(Tail(lines))

\* the three tests tried line by line: what the first line that passes one of
\* them gives
RECURSIVE PerLinePass(_)
PerLinePass(lines) ==
    IF Len(lines) = 0 THEN NoName
    ELSE IF HeadingQualifies(lines[1])
         THEN Found(Take(HeadingName(lines[1]), TitleMax))
    ELSE IF BoldQualifies(lines[1])
         THEN Found(Take(BoldName(lines[1]), TitleMax))
    ELSE IF FirstLineQualifies(lines[1])
         THEN Found(CleanMarkdown(lines[1]))
    ELSE PerLinePass(Tail(lines))

\* extract_recipe_name with one loop over the lines in place of three
extract_recipe_name_PerLine(content) ==
    LET lines == SplitLines(content)
        first == PerLinePass(lines)
        fallback == FallbackPass(lines)
    IN  IF first.found THEN first.name
        ELSE IF fallback.found THEN fallback.name
        ELSE UntitledRecipe

\* extract_recipe_name whose last return is the empty string
extract_recipe_name_EmptyDefault(content) ==
    LET lines == SplitLines(content)
        pass1 == HeadingPass(lines)
        pass2 == BoldPass(lines)
        pass3 == FirstLinePass(lines)
        fallback == FallbackPass(lines)
    IN  IF pass1.found THEN pass1.name
        ELSE IF pass2.found THEN pass2.name
        ELSE IF pass3.found THEN pass3.name
        ELSE IF fallback.found THEN fallback.name
        ELSE ""

extract_recipe_name(content) ==
    LET lines == SplitLines(content)
        pass1 == HeadingPass(lines)
        pass2 == BoldPass(lines)
        pass3 == FirstLinePass(lines)
        fallback == FallbackPass(lines)
    IN  IF pass1.found THEN pass1.name
        ELSE IF pass2.found THEN pass2.name
        ELSE IF pass3.found THEN pass3.name
        ELSE IF fallback.found THEN fallback.name
        ELSE UntitledRecipe

-----------------------------------------------------------------------------
(* The inputs of extract_recipe_name the model enumerates *)

\* 88 characters, eight words of ten letters
LongTitle == Repeat("Slow Roast ", 8)

GarlicExample == "# Garlic Butter Shrimp\n\nIngredients:\n- shrimp"
CurryExample == "Sure! Here's a delicious Thai Green Curry recipe for you."

TitleLines ==
    {"", " \t",
     "# Garlic Butter Shrimp", "## Ingredients", "# **Name**", "#  Pho ", "# ab",
     "### TIPS and tricks", " # " \o LongTitle,
     "**Thai Curry**", "**Prep Time: 5 min**", "**Thai** green **Curry**",
     "**a*b**", "**" \o LongTitle \o "**",
     "Thai Green Curry", "Pho", "ab", "a#*b", CurryExample, "An enjoyable stew",
     "Cheresy Pie",
     "Soup --- quick", "Servings: 4", "- shrimp", "1. Mix well", "2) Stir",
     BulletChar \o " salt", LongTitle}

\* the lines that are combined into texts of up to MaxTitleLines lines
CoreTitleLines ==
    {"", "## Ingredients", "# Garlic Butter Shrimp", "**Thai Curry**",
     "**Prep Time: 5 min**", "Thai Green Curry", "An enjoyable stew", "- shrimp"}

\* every text of at most n lines of lineSet
RECURSIVE TextsOf(_, _)
TextsOf(lineSet, n) ==
    IF n = 0 THEN {<<>>}
    ELSE TextsOf(lineSet, n - 1) \cup
         {Append(t, l) : t \in {u \in TextsOf(lineSet, n - 1) : Len(u) = n - 1},
                         l \in lineSet}

\* every text of one or two lines of lineSet
OneOrTwoOf(lineSet) == lineSet \cup {a \o "\n" \o b : a \in lineSet, b \in lineSet}

TitleInputs ==
    {JoinLines(t) : t \in TextsOf(CoreTitleLines, MaxTitleLines)}
        \cup OneOrTwoOf(TitleLines)
        \cup {GarlicExample, CurryExample}

-----------------------------------------------------------------------------
(* The call of extract_recipe_name *)

InitTitle ==
    /\ pc = "ready"
    /\ recipe_content \in TitleInputs
    /\ recipe_name = ""
    /\ recipe_card_content = ""
    /\ html_lines = <<>>
    /\ full_html = ""
    /\ name = ""
    /\ max_len = 0
    /\ display_name = ""
    /\ frames = <<>>
    /\ AppIdle

ExtractRecipeName ==
    /\ pc = "ready"
    /\ recipe_name' = extract_recipe_name(recipe_content)
    /\ pc' = "done"
    /\ UNCHANGED appVars
    /\ UNCHANGED <<recipe_content, recipe_card_content, html_lines, full_html,
                   name, max_len, display_name, frames>>

NextTitle == ExtractRecipeName

SpecTitle == InitTitle /\ [][NextTitle]_vars

-----------------------------------------------------------------------------
(* create_recipe_card_html, src/utils.py:364-552 *)

\* the positions of s where '**' stands
StarPairs(s) == {i \in 1..(Len(s) - 1) : SubSeq(s, i, i + 1) = "**"}

\* BoldSub that substitutes the first span only (re.sub with count=1)
BoldSub_FirstOnly(s) ==
    LET pairs == {i \in 1..(Len(s) - 1) : SubSeq(s, i, i + 1) = "**"}
        opens == {i \in pairs : \E j \in pairs : j >= i + 3}
    IN  IF opens = {} THEN s
        ELSE LET i == MinOf(opens)
                 j == MinOf({k \in pairs : k >= i + 3})
             IN  SubSeq(s, 1, i - 1) \o "<strong>" \o SubSeq(s, i + 2, j - 1)
                     \o "</strong>" \o Drop(s, j + 1)

\* BoldSub with a greedy group: one span from the first '**' to the last
BoldSub_Greedy(s) ==
    LET pairs == {i \in 1..(Len(s) - 1) : SubSeq(s, i, i + 1) = "**"}
        opens == {i \in pairs : \E j \in pairs : j >= i + 3}
    IN  IF opens = {} THEN s
        ELSE LET i == MinOf(opens)
                 j == MaxOf(pairs)
             IN  SubSeq(s, 1, i - 1) \o "<strong>" \o SubSeq(s, i + 2, j - 1)
                     \o "</strong>" \o Drop(s, j + 1)

\* re.sub(r'\*\*(.+?)\*\*', r'<strong>\1</strong>', s): the leftmost '**' that a
\* later '**' closes with at least one character between them opens a match, the
\* nearest such '**' closes it (the group is lazy), and the scan goes on after it
RECURSIVE BoldSub(_)
BoldSub(s) ==
    LET pairs == StarPairs(s)
        opens == {i \in pairs : \E j \in pairs : j >= i + 3}
    IN  IF opens = {} THEN s
        ELSE LET i == MinOf(opens)
                 j == MinOf({k \in pairs : k >= i + 3})
             IN  SubSeq(s, 1, i - 1) \o "<strong>" \o SubSeq(s, i + 2, j - 1)
                     \o "</strong>" \o BoldSub(Drop(s, j + 1))

\* the number of leading digits of s
LeadingDigits(s) ==
    LET other == {i \in 1..Len(s) : At(s, i) \notin Digits}
    IN  IF other = {} THEN Len(s) ELSE MinOf(other) - 1

\* re.match(r'^\d+\.\s', stripped)
NumberedItem(stripped) ==
    LET d == LeadingDigits(stripped)
    IN  /\ d >= 1
        /\ Len(stripped) >= d + 2
        /\ At(stripped, d + 1) = "."
        /\ At(stripped, d + 2) \in WhiteSpace

\* re.sub(r'^\d+\.\s+', '', stripped), for a line NumberedItem accepts
NumberedText(stripped) ==
    LStripChars(Drop(stripped, LeadingDigits(stripped) + 1), WhiteSpace)

\* the loop's variables: html_lines, in_unordered_list, in_ordered_list
NoLines == [html_lines |-> <<>>, in_unordered_list |-> FALSE, in_ordered_list |-> FALSE]

\* if in_unordered_list: append '</ul>' ...; if in_ordered_list: append '</ol>' ...
CloseLists(st) ==
    [html_lines |->
        st.html_lines
            \o (IF st.in_unordered_list THEN <<"</ul>">> ELSE <<>>)
            \o (IF st.in_ordered_list THEN <<"</ol>">> ELSE <<>>),
     in_unordered_list |-> FALSE,
     in_ordered_list |-> FALSE]

\* html_lines.append(h)
Emit(st, h) == [st EXCEPT !.html_lines = Append(@, h)]

\* BulletLine that leaves an open ordered list open
BulletLine_KeepsOrdered(st, stripped) ==
    LET opened == IF ~ st.in_unordered_list
                  THEN [st EXCEPT !.html_lines = Append(@, "<ul>"),
                                  !.in_unordered_list = TRUE]
                  ELSE st
    IN  [opened EXCEPT !.html_lines =
            Append(@, "<li>" \o BoldSub(Drop(stripped, 2)) \o "</li>")]

\* the '- ' branch
BulletLine(st, stripped) ==
    LET closed == IF st.in_ordered_list
                  THEN [st EXCEPT !.html_lines = Append(@, "</ol>"),
                                  !.in_ordered_list = FALSE]
                  ELSE st
        opened == IF ~ closed.in_unordered_list
                  THEN [closed EXCEPT !.html_lines = Append(@, "<ul>"),
                                      !.in_unordered_list = TRUE]
                  ELSE closed
    IN  Emit(opened, "<li>" \o BoldSub(Drop(stripped, 2)) \o "</li>")

\* the numbered branch
NumberedLine(st, stripped) ==
    LET closed == IF st.in_unordered_list
                  THEN [st EXCEPT !.html_lines = Append(@, "</ul>"),
                                  !.in_unordered_list = FALSE]
                  ELSE st
        opened == IF ~ closed.in_ordered_list
                  THEN [closed EXCEPT !.html_lines = Append(@, "<ol>"),
                                      !.in_ordered_list = TRUE]
                  ELSE closed
    IN  Emit(opened, "<li>" \o BoldSub(NumberedText(stripped)) \o "</li>")

\* RenderLine without the 'continue' of the blank-line branch: a blank line falls
\* through to the paragraph branch
RenderLine_BlankParagraph(st, line) ==
    LET stripped == Strip(line)
    IN  IF StartsWith(stripped, "# ")
             THEN Emit(CloseLists(st), "<h1>" \o Drop(stripped, 2) \o "</h1>")
        ELSE IF StartsWith(stripped, "## ")
             THEN Emit(CloseLists(st), "<h2>" \o Drop(stripped, 3) \o "</h2>")
        ELSE IF stripped = "---"
             THEN Emit(CloseLists(st), "<hr>")
        ELSE IF StartsWith(stripped, "- ")
             THEN BulletLine(st, stripped)
        ELSE IF NumberedItem(stripped)
             THEN NumberedLine(st, stripped)
        ELSE Emit(CloseLists(st), "<p>" \o BoldSub(stripped) \o "</p>")

\* RenderLine with the bold substitution applied to the heading text as well
RenderLine_BoldHeadings(st, line) ==
    LET stripped == Strip(line)
    IN  IF stripped = "" THEN CloseLists(st)
        ELSE IF StartsWith(stripped, "# ")
             THEN Emit(CloseLists(st), "<h1>" \o BoldSub(Drop(stripped, 2)) \o "</h1>")
        ELSE IF StartsWith(stripped, "## ")
             THEN Emit(CloseLists(st), "<h2>" \o BoldSub(Drop(stripped, 3)) \o "</h2>")
        ELSE IF stripped = "---"
             THEN Emit(CloseLists(st), "<hr>")
        ELSE IF StartsWith(stripped, "- ")
             THEN BulletLine(st, stripped)
        ELSE IF NumberedItem(stripped)
             THEN NumberedLine(st, stripped)
        ELSE Emit(CloseLists(st), "<p>" \o BoldSub(stripped) \o "</p>")

\* one pass of the body of 'for line in lines'
RenderLine(st, line) ==
    LET stripped == Strip(line)
    IN  IF stripped = "" THEN CloseLists(st)
        ELSE IF StartsWith(stripped, "# ")
             THEN Emit(CloseLists(st), "<h1>" \o Drop(stripped, 2) \o "</h1>")
        ELSE IF StartsWith(stripped, "## ")
             THEN Emit(CloseLists(st), "<h2>" \o Drop(stripped, 3) \o "</h2>")
        ELSE IF stripped = "---"
             THEN Emit(CloseLists(st), "<hr>")
        ELSE IF StartsWith(stripped, "- ")
             THEN BulletLine(st, stripped)
        ELSE IF NumberedItem(stripped)
             THEN NumberedLine(st, stripped)
        ELSE Emit(CloseLists(st), "<p>" \o BoldSub(stripped) \o "</p>")

\* the loop over the lines, from the loop variables st
RECURSIVE RenderLines(_, _)
RenderLines(st, lines) ==
    IF Len(lines) = 0 THEN st
    ELSE RenderLines(RenderLine(st, lines[1]), Tail(lines))

\* html_lines after the loop and 'Close any remaining lists'
RenderBlocks(content) ==
    CloseLists(RenderLines(NoLines, SplitLines(content))).html_lines

\* the f-string before {html_content}; the two code points of the printer
\* emoji of the button label are written '??'
TemplateHead ==
    "\n"
    \o "    <!DOCTYPE html>\n"
    \o "    <html>\n"
    \o "    <head>\n"
    \o "        <meta charset=\"UTF-8\">\n"
    \o "        <title>Recipe Card</title>\n"
    \o "        <style>\n"
    \o "            @media print {\n"
    \o "                body { margin: 1in; }\n"
    \o "                button { display: none; }\n"
    \o "            }\n"
    \o "            body {\n"
    \o "                font-family: 'Georgia', serif;\n"
    \o "                max-width: 800px;\n"
    \o "                margin: 40px auto;\n"
    \o "                padding: 20px;\n"
    \o "                line-height: 1.6;\n"
    \o "                color: #333;\n"
    \o "            }\n"
    \o "            h1 {\n"
    \o "                color: #2c5530;\n"
    \o "                border-bottom: 3px solid #2c5530;\n"
    \o "                padding-bottom: 10px;\n"
    \o "                margin-bottom: 20px;\n"
    \o "            }\n"
    \o "            h2 {\n"
    \o "                color: #5a7d5e;\n"
    \o "                margin-top: 30px;\n"
    \o "                margin-bottom: 15px;\n"
    \o "                font-size: 1.4em;\n"
    \o "            }\n"
    \o "            hr {\n"
    \o "                border: none;\n"
    \o "                border-top: 1px solid #ddd;\n"
    \o "                margin: 20px 0;\n"
    \o "            }\n"
    \o "            ul {\n"
    \o "                margin-left: 20px;\n"
    \o "                margin-bottom: 20px;\n"
    \o "                padding-left: 20px;\n"
    \o "            }\n"
    \o "            ol {\n"
    \o "                margin-left: 20px;\n"
    \o "                margin-bottom: 20px;\n"
    \o "                padding-left: 20px;\n"
    \o "            }\n"
    \o "            ul li {\n"
    \o "                margin-bottom: 8px;\n"
    \o "                list-style-type: disc;\n"
    \o "            }\n"
    \o "            ol li {\n"
    \o "                margin-bottom: 10px;\n"
    \o "                list-style-type: decimal;\n"
    \o "            }\n"
    \o "            strong {\n"
    \o "                color: #2c5530;\n"
    \o "            }\n"
    \o "            p {\n"
    \o "                margin: 8px 0;\n"
    \o "            }\n"
    \o "            .print-button {\n"
    \o "                background-color: #2c5530;\n"
    \o "                color: white;\n"
    \o "                padding: 12px 24px;\n"
    \o "                border: none;\n"
    \o "                border-radius: 5px;\n"
    \o "                cursor: pointer;\n"
    \o "                font-size: 16px;\n"
    \o "                margin: 20px 0;\n"
    \o "                display: block;\n"
    \o "            }\n"
    \o "            .print-button:hover {\n"
    \o "                background-color: #1e3d22;\n"
    \o "            }\n"
    \o "            @page {\n"
    \o "                margin: 1in;\n"
    \o "            }\n"
    \o "        </style>\n"
    \o "    </head>\n"
    \o "    <body>\n"
    \o "        <button class=\"print-button\" onclick=\"window.print()\">?? Print Recipe Card</button>\n"
    \o "        "

\* the f-string after {html_content}
TemplateTail ==
    "\n"
    \o "        <button class=\"print-button\" onclick=\"window.print()\">?? Print Recipe Card</button>\n"
    \o "    </body>\n"
    \o "    </html>\n"
    \o "    "

\* create_recipe_card_html whose template has the button above the content only
create_recipe_card_html_OneButton(content) ==
    TemplateHead \o JoinLines(RenderBlocks(content))
        \o "\n    </body>\n    </html>\n    "

create_recipe_card_html(content) ==
    TemplateHead \o JoinLines(RenderBlocks(content)) \o TemplateTail

-----------------------------------------------------------------------------
(* The inputs of create_recipe_card_html the model enumerates *)

\* the print-trigger button markup
ButtonMarkup == "<button class=\"print-button\" onclick=\"window.print()\">"

ListsExample == "- a\n- b\n\n1. x\n2. y"
BoldExample == "**bold** and plain"

CardLines ==
    {"", "  ",
     "# Thai Curry", "## Steps", "# **Hot** pot", "#", "---", " --- ", "----",
     "- a", "- b", "- **Rice**: 2 cups", "-", "* a",
     "1. x", "2. y", "10.  **Boil** the **rice**", "1.", "1) x",
     "plain", BoldExample, "**a** and **b**", "****a**", "a ** b", "*****",
     "***a***", "**x******a**", "- ****", "**Hot** pot", "## a **b** c",
     ButtonMarkup \o "Print</button>", "<ul>"}

\* the lines that are combined into texts of up to MaxCardLines lines
CoreCardLines ==
    {"", "## Steps", "---", "- a", "- b", "1. x", "2. y", "**a** and **b**"}

CardInputs ==
    {JoinLines(t) : t \in TextsOf(CoreCardLines, MaxCardLines)}
        \cup OneOrTwoOf(CardLines)
        \cup {ListsExample, BoldExample}

-----------------------------------------------------------------------------
(* The call of create_recipe_card_html *)

InitCard ==
    /\ pc = "ready"
    /\ recipe_card_content \in CardInputs
    /\ html_lines = <<>>
    /\ full_html = ""
    /\ recipe_content = ""
    /\ recipe_name = ""
    /\ name = ""
    /\ max_len = 0
    /\ display_name = ""
    /\ frames = <<>>
    /\ AppIdle

CreateRecipeCardHtml ==
    /\ pc = "ready"
    /\ html_lines' = RenderBlocks(recipe_card_content)
    /\ full_html' = create_recipe_card_html(recipe_card_content)
    /\ pc' = "done"
    /\ UNCHANGED appVars
    /\ UNCHANGED <<recipe_card_content, recipe_content, recipe_name,
                   name, max_len, display_name, frames>>

NextCard == CreateRecipeCardHtml

SpecCard == InitCard /\ [][NextCard]_vars

-----------------------------------------------------------------------------
(* SavedRecipesManager._clean_display_name, src/saved_recipes.py:488-520 *)

\* max_len: int = 55
DefaultMaxLen == 55

\* the number of whitespace characters of s from position q on
RECURSIVE WhiteRun(_, _)
WhiteRun(s, q) ==
    IF q <= Len(s) /\ At(s, q) \in WhiteSpace THEN 1 + WhiteRun(s, q + 1) ELSE 0

\* the word stands at position r of s, in any letter case (re.IGNORECASE)
WordAt(s, r, word) ==
    /\ r + Len(word) - 1 <= Len(s)
    /\ Lower(SubSeq(s, r, r + Len(word) - 1)) = word

\* (?:how about|let'?s make|let'?s try|try making|here'?s|here is)
AiKeywords1 ==
    {"how about", "let's make", "lets make", "let's try", "lets try",
     "try making", "here's", "heres", "here is"}

\* (?:delicious\s+|classic\s+|homemade\s+|amazing\s+)?
AiAdjectives1 == {"delicious", "classic", "homemade", "amazing"}

\* (?:recipe for|make|making)
AiKeywords2 == {"recipe for", "make", "making"}

\* (?:delicious\s+|classic\s+)?
AiAdjectives2 == {"delicious", "classic"}

\* (?:a\s+|some\s+)?
AiArticles == {"a", "some"}

\* (?:\?|!|\.|,|this\s) matches at position t
TerminatorAt(s, t) ==
    \/ At(s, t) \in {"?", "!", ".", ","}
    \/ WordAt(s, t, "this") /\ WhiteRun(s, t + 4) >= 1

\* the starts of group 1 left when a greedy \s+ that began at position from and
\* took n characters gives them back one at a time, down to one character
GiveBack(from, n) == [k \in 1..(n - 1) |-> from + (n - k)]

\* some word of words stands at position r and whitespace follows it
WordThenSpace(s, r, words) ==
    \E a \in words : WordAt(s, r, a) /\ WhiteRun(s, r + Len(a)) >= 1

\* the starts of group 1 the matcher tries, in its order, when it reaches the
\* optional adjective at position r: the adjective with all its whitespace, then
\* with less of it, then no adjective
AdjectiveStarts(s, r, adjectives) ==
    IF WordThenSpace(s, r, adjectives)
    THEN LET a == CHOOSE a \in adjectives : WordAt(s, r, a)
             m == WhiteRun(s, r + Len(a))
         IN  <<r + Len(a) + m>> \o GiveBack(r + Len(a), m) \o <<r>>
    ELSE <<r>>

\* the same when it reaches the optional article at position r: the article with
\* all its whitespace and then the optional adjective, the article with less
\* whitespace, then no article and the optional adjective
ArticleStarts(s, r, adjectives) ==
    IF WordThenSpace(s, r, AiArticles)
    THEN LET a == CHOOSE a \in AiArticles : WordAt(s, r, a)
             m == WhiteRun(s, r + Len(a))
         IN  AdjectiveStarts(s, r + Len(a) + m, adjectives)
                 \o GiveBack(r + Len(a), m)
                 \o AdjectiveStarts(s, r, adjectives)
    ELSE AdjectiveStarts(s, r, adjectives)

\* the starts of group 1 tried after the keyword that ends before position q:
\* \s+ takes all the whitespace, then come the optional article and adjective;
\* when nothing matches behind them \s+ gives whitespace back
GroupStarts(s, q, adjectives) ==
    LET w == WhiteRun(s, q)
    IN  IF w = 0 THEN <<>>
        ELSE ArticleStarts(s, q + w, adjectives) \o GiveBack(q, w)

\* where the lazy group (.+?) that starts at p ends: before the nearest
\* terminator that leaves it at least one character, none of them a newline
\* (0: no match from p)
GroupEnd(s, p) ==
    LET T == {t \in (p + 1)..Len(s) : TerminatorAt(s, t)}
    IN  IF p > Len(s) \/ T = {} THEN 0
        ELSE IF \E i \in p..(MinOf(T) - 1) : At(s, i) = "\n" THEN 0
        ELSE MinOf(T) - 1

\* group 1 of the first start of starts from which the rest of the pattern matches
RECURSIVE FirstGroup(_, _)
FirstGroup(s, starts) ==
    IF Len(starts) = 0 THEN NoName
    ELSE IF GroupEnd(s, starts[1]) # 0
         THEN Found(SubSeq(s, starts[1], GroupEnd(s, starts[1])))
         ELSE FirstGroup(s, Tail(starts))

\* the match of the pattern that starts at position i of s
AiMatchAt(s, i, keywords, adjectives) ==
    LET hit == {k \in keywords : WordAt(s, i, k)}
    IN  IF hit = {} THEN NoName
        ELSE FirstGroup(s, GroupStarts(s, i + Len(CHOOSE k \in hit : TRUE), adjectives))

\* re.search(pattern, s, re.IGNORECASE).group(1): the match at the leftmost
\* position that has one
AiSearch(s, keywords, adjectives) ==
    LET at == {i \in 1..Len(s) : AiMatchAt(s, i, keywords, adjectives).found}
    IN  IF at = {} THEN NoName ELSE AiMatchAt(s, MinOf(at), keywords, adjectives)

\* extracted = match.group(1).strip().rstrip('.,!? ')
Extracted(group) == RStripChars(Strip(group), {".", ",", "!", "?", " "})

\* the words that start the extraction
AiMarkers == {"sure!", "how about", "let's", "here's", "try making", "here is"}

\* the loop over ai_patterns: the first pattern that matches with an extraction
\* of at least 3 characters replaces clean
ReExtract(clean) ==
    LET m1 == AiSearch(clean, AiKeywords1, AiAdjectives1)
        m2 == AiSearch(clean, AiKeywords2, AiAdjectives2)
    IN  IF ~ \E p \in AiMarkers : Contains(Lower(clean), p) THEN clean
        ELSE IF m1.found /\ Len(Extracted(m1.name)) >= 3 THEN Extracted(m1.name)
        ELSE IF m2.found /\ Len(Extracted(m2.name)) >= 3 THEN Extracted(m2.name)
        ELSE clean

\* StripFormatting that takes one ':' off the end, as s[:-1] would
StripFormatting_OneColon(n) ==
    LET t == Strip(RemoveChars(n, {"#", "*"}))
    IN  Strip(IF EndsWith(t, ":") THEN Take(t, Len(t) - 1) ELSE t)

\* name.replace('#', '').replace('*', '').strip().rstrip(':').strip()
StripFormatting(n) == Strip(RStripChars(Strip(RemoveChars(n, {"#", "*"})), {":"}))

GenericHeaders == {"introduction", "overview", "recipe", "description"}

\* s.rsplit(' ', 1)[0]
BeforeLastSpace(s) ==
    LET sp == {i \in 1..Len(s) : At(s, i) = " "}
    IN  IF sp = {} THEN s ELSE SubSeq(s, 1, MaxOf(sp) - 1)

\* Ellipsize that cuts at max_len without going back to a space
Ellipsize_NoBackOff(clean, len) == Take(clean, len) \o "..."

\* clean[:max_len].rsplit(' ', 1)[0] + "..."
Ellipsize(clean, len) == BeforeLastSpace(Take(clean, len)) \o "..."

\* _clean_display_name whose last line returns clean as it is
clean_display_name_NoFallback(n, len) ==
    IF n = "" THEN UntitledRecipe
    ELSE LET clean == ReExtract(StripFormatting(n))
         IN  IF Lower(clean) \in GenericHeaders THEN UntitledRecipe
             ELSE IF Len(clean) > len THEN Ellipsize(clean, len)
             ELSE clean

\* _clean_display_name that compares clean, not clean.lower(), with the headers
clean_display_name_CaseSensitive(n, len) ==
    IF n = "" THEN UntitledRecipe
    ELSE LET clean == ReExtract(StripFormatting(n))
         IN  IF clean \in GenericHeaders THEN UntitledRecipe
             ELSE IF Len(clean) > len THEN Ellipsize(clean, len)
             ELSE IF clean # "" THEN clean
             ELSE UntitledRecipe

clean_display_name(n, len) ==
    IF n = "" THEN UntitledRecipe
    ELSE LET clean == ReExtract(StripFormatting(n))
         IN  IF Lower(clean) \in GenericHeaders THEN UntitledRecipe
             ELSE IF Len(clean) > len THEN Ellipsize(clean, len)
             ELSE IF clean # "" THEN clean
             ELSE UntitledRecipe

-----------------------------------------------------------------------------
(* The inputs of _clean_display_name the model enumerates *)

\* the stored names before markers are put around them
BaseNames ==
    {"", "Thai Green Curry", "Recipe", "OVERVIEW", "My recipe", "Pho",
     CurryExample,
     "How about some classic Pad Thai?",
     "Let's make a  homemade pizza, this time",
     "here is a .",
     "Sure! A recipe for pancakes this weekend",
     "Here's a recipe.",
     "Try making it!",
     LongTitle,
     Repeat("xxxxxxxxxx", 10)}

\* a name with one more marker character before or after it
Decorated(n) == {"#" \o n, "*" \o n, " " \o n, n \o ":", n \o "*", n \o " "}

\* the names with at most k marker characters around a base name
RECURSIVE DecoratedNames(_)
DecoratedNames(k) ==
    IF k = 0 THEN BaseNames
    ELSE DecoratedNames(k - 1) \cup UNION {Decorated(n) : n \in DecoratedNames(k - 1)}

\* the values of max_len: none, a short one, the default
MaxLenValues == {0, 12, DefaultMaxLen}

-----------------------------------------------------------------------------
(* The call of _clean_display_name *)

InitClean ==
    /\ pc = "ready"
    /\ name \in DecoratedNames(MaxDecoration)
    /\ max_len \in MaxLenValues
    /\ display_name = ""
    /\ recipe_content = ""
    /\ recipe_name = ""
    /\ recipe_card_content = ""
    /\ html_lines = <<>>
    /\ full_html = ""
    /\ frames = <<>>
    /\ AppIdle

CleanDisplayName ==
    /\ pc = "ready"
    /\ display_name' = clean_display_name(name, max_len)
    /\ pc' = "done"
    /\ UNCHANGED appVars
    /\ UNCHANGED <<name, max_len, recipe_content, recipe_name,
                   recipe_card_content, html_lines, full_html, frames>>

NextClean == CleanDisplayName

SpecClean == InitClean /\ [][NextClean]_vars

-----------------------------------------------------------------------------
(* The two functions of src/utils.py run one loop iteration at a time.  Each  *)
(* call has a frame with its argument, its local variables and its position; *)
(* the functions have no other variables.                                    *)

\* the frame of a call of extract_recipe_name at its first statement
TitleFrame(content) ==
    [fn |-> "extract_recipe_name", arg |-> content, lines |-> SplitLines(content),
     at |-> "pass1", i |-> 1, st |-> NoLines, result |-> ""]

\* the frame of a call of create_recipe_card_html at its first statement
CardFrame(content) ==
    [fn |-> "create_recipe_card_html", arg |-> content, lines |-> SplitLines(content),
     at |-> "line", i |-> 1, st |-> NoLines, result |-> ""]

\* the 'if' that guards the return of each loop of extract_recipe_name
TitleTest(at, line) ==
    IF at = "pass1" THEN HeadingQualifies(line)
    ELSE IF at = "pass2" THEN BoldQualifies(line)
    ELSE IF at = "pass3" THEN FirstLineQualifies(line)
    ELSE FallbackQualifies(line)

\* the value each loop returns
TitleValue(at, line) ==
    IF at = "pass1" THEN Take(HeadingName(line), TitleMax)
    ELSE IF at = "pass2" THEN Take(BoldName(line), TitleMax)
    ELSE IF at = "pass3" THEN CleanMarkdown(line)
    ELSE Take(CleanMarkdown(line), TitleMax)

\* the loop that follows each loop
NextPass(at) ==
    IF at = "pass1" THEN "pass2" ELSE IF at = "pass2" THEN "pass3" ELSE "fallback"

\* one iteration of a loop of extract_recipe_name, or the step from the end of
\* a loop to the next loop or to the last return
TitleStep(c) ==
    /\ frames[c].fn = "extract_recipe_name"
    /\ frames[c].at # "done"
    /\ LET f == frames[c]
       IN  frames' = [frames EXCEPT ![c] =
               IF f.i > Len(f.lines)
               THEN IF f.at = "fallback"
                    THEN [f EXCEPT !.at = "done", !.result = UntitledRecipe]
                    ELSE [f EXCEPT !.at = NextPass(f.at), !.i = 1]
               ELSE IF TitleTest(f.at, f.lines[f.i])
                    THEN [f EXCEPT !.at = "done", !.result = TitleValue(f.at, f.lines[f.i])]
                    ELSE [f EXCEPT !.i = f.i + 1]]
    /\ UNCHANGED appVars
    /\ UNCHANGED <<pc, recipe_content, recipe_name, recipe_card_content, html_lines,
                   full_html, name, max_len, display_name>>

\* if in_unordered_list: html_lines.append('</ul>'); in_unordered_list = False
CloseUnordered(st) ==
    IF st.in_unordered_list
    THEN [st EXCEPT !.html_lines = Append(@, "</ul>"), !.in_unordered_list = FALSE]
    ELSE st

\* if in_ordered_list: html_lines.append('</ol>'); in_ordered_list = False
CloseOrdered(st) ==
    IF st.in_ordered_list
    THEN [st EXCEPT !.html_lines = Append(@, "</ol>"), !.in_ordered_list = FALSE]
    ELSE st

\* ClosePart whose '- ' branch leaves an open ordered list open
ClosePart_BulletKeepsOrdered(st, stripped) ==
    IF stripped = "" THEN CloseOrdered(CloseUnordered(st))
    ELSE IF StartsWith(stripped, "# ") THEN CloseOrdered(CloseUnordered(st))
    ELSE IF StartsWith(stripped, "## ") THEN CloseOrdered(CloseUnordered(st))
    ELSE IF stripped = "---" THEN CloseOrdered(CloseUnordered(st))
    ELSE IF StartsWith(stripped, "- ") THEN st
    ELSE IF NumberedItem(stripped) THEN CloseUnordered(st)
    ELSE CloseOrdered(CloseUnordered(st))

\* the first half of a loop iteration: the branch of the line closes lists
ClosePart(st, stripped) ==
    IF stripped = "" THEN CloseOrdered(CloseUnordered(st))
    ELSE IF StartsWith(stripped, "# ") THEN CloseOrdered(CloseUnordered(st))
    ELSE IF StartsWith(stripped, "## ") THEN CloseOrdered(CloseUnordered(st))
    ELSE IF stripped = "---" THEN CloseOrdered(CloseUnordered(st))
    ELSE IF StartsWith(stripped, "- ") THEN CloseOrdered(st)
    ELSE IF NumberedItem(stripped) THEN CloseUnordered(st)
    ELSE CloseOrdered(CloseUnordered(st))

\* if not in_unordered_list: html_lines.append('<ul>'); in_unordered_list = True
OpenUnordered(st) ==
    IF ~ st.in_unordered_list
    THEN [st EXCEPT !.html_lines = Append(@, "<ul>"), !.in_unordered_list = TRUE]
    ELSE st

\* if not in_ordered_list: html_lines.append('<ol>'); in_ordered_list = True
OpenOrdered(st) ==
    IF ~ st.in_ordered_list
    THEN [st EXCEPT !.html_lines = Append(@, "<ol>"), !.in_ordered_list = TRUE]
    ELSE st

\* the second half of a loop iteration: the branch opens its list and appends
\* its block ('continue' for a blank line)
AppendPart(st, stripped) ==
    IF stripped = "" THEN st
    ELSE IF StartsWith(stripped, "# ")
         THEN Emit(st, "<h1>" \o Drop(stripped, 2) \o "</h1>")
    ELSE IF StartsWith(stripped, "## ")
         THEN Emit(st, "<h2>" \o Drop(stripped, 3) \o "</h2>")
    ELSE IF stripped = "---"
         THEN Emit(st, "<hr>")
    ELSE IF StartsWith(stripped, "- ")
         THEN Emit(OpenUnordered(st), "<li>" \o BoldSub(Drop(stripped, 2)) \o "</li>")
    ELSE IF NumberedItem(stripped)
         THEN Emit(OpenOrdered(st), "<li>" \o BoldSub(NumberedText(stripped)) \o "</li>")
    ELSE Emit(st, "<p>" \o BoldSub(stripped) \o "</p>")

\* 'Close any remaining lists': the tags are appended, the flags stay
FinalClose(st) ==
    [st EXCEPT !.html_lines =
        @ \o (IF st.in_unordered_list THEN <<"</ul>">> ELSE <<>>)
          \o (IF st.in_ordered_list THEN <<"</ol>">> ELSE <<>>)]

\* the first half of the iteration for line i
CardClose(c) ==
    /\ frames[c].fn = "create_recipe_card_html"
    /\ frames[c].at = "line"
    /\ frames[c].i <= Len(frames[c].lines)
    /\ LET f == frames[c]
       IN  frames' = [frames EXCEPT ![c] =
               [f EXCEPT !.st = ClosePart(f.st, Strip(f.lines[f.i])), !.at = "append"]]
    /\ UNCHANGED appVars
    /\ UNCHANGED <<pc, recipe_content, recipe_name, recipe_card_content, html_lines,
                   full_html, name, max_len, display_name>>

\* CardAppend with the two list flags kept in module-level variables: the
\* flags the call sets are the flags of every call
CardAppend_SharedFlags(c) ==
    /\ frames[c].fn = "create_recipe_card_html"
    /\ frames[c].at = "append"
    /\ LET f == frames[c]
           st == AppendPart(f.st, Strip(f.lines[f.i]))
       IN  frames' = [d \in DOMAIN frames |->
               IF d = c THEN [f EXCEPT !.st = st, !.i = f.i + 1, !.at = "line"]
               ELSE [frames[d] EXCEPT !.st.in_unordered_list = st.in_unordered_list,
                                      !.st.in_ordered_list = st.in_ordered_list]]
    /\ UNCHANGED appVars
    /\ UNCHANGED <<pc, recipe_content, recipe_name, recipe_card_content, html_lines,
                   full_html, name, max_len, display_name>>

\* the second half of the iteration for line i
CardAppend(c) ==
    /\ frames[c].fn = "create_recipe_card_html"
    /\ frames[c].at = "append"
    /\ LET f == frames[c]
       IN  frames' = [frames EXCEPT ![c] =
               [f EXCEPT !.st = AppendPart(f.st, Strip(f.lines[f.i])),
                         !.i = f.i + 1, !.at = "line"]]
    /\ UNCHANGED appVars
    /\ UNCHANGED <<pc, recipe_content, recipe_name, recipe_card_content, html_lines,
                   full_html, name, max_len, display_name>>

\* after the loop: close the remaining lists, join, fill the template, return
CardReturn(c) ==
    /\ frames[c].fn = "create_recipe_card_html"
    /\ frames[c].at = "line"
    /\ frames[c].i > Len(frames[c].lines)
    /\ LET f == frames[c]
           st == FinalClose(f.st)
       IN  frames' = [frames EXCEPT ![c] =
               [f EXCEPT !.st = st, !.at = "done",
                         !.result = TemplateHead \o JoinLines(st.html_lines) \o TemplateTail]]
    /\ UNCHANGED appVars
    /\ UNCHANGED <<pc, recipe_content, recipe_name, recipe_card_content, html_lines,
                   full_html, name, max_len, display_name>>

-----------------------------------------------------------------------------
(* One call of create_recipe_card_html, step by step *)

InitLoop ==
    /\ frames \in [{1} -> {CardFrame(content) : content \in CardInputs}]
    /\ pc = "ready"
    /\ recipe_content = ""
    /\ recipe_name = ""
    /\ recipe_card_content = ""
    /\ html_lines = <<>>
    /\ full_html = ""
    /\ name = ""
    /\ max_len = 0
    /\ display_name = ""
    /\ AppIdle

NextLoop == \E c \in DOMAIN frames : CardClose(c) \/ CardAppend(c) \/ CardReturn(c)

SpecLoop == InitLoop /\ [][NextLoop]_vars

-----------------------------------------------------------------------------
(* NumCalls calls of the two functions whose steps interleave *)

\* the arguments of the calls of extract_recipe_name
CallTitleArgs ==
    {GarlicExample, CurryExample, "ab\n**Thai Curry**", "Cheresy Pie\nThai Green Curry"}

\* the arguments of the calls of create_recipe_card_html
CallCardArgs == {"- a\n1. x", BoldExample}

InitCalls ==
    /\ frames \in [1..NumCalls ->
                      {TitleFrame(content) : content \in CallTitleArgs}
                          \cup {CardFrame(content) : content \in CallCardArgs}]
    /\ pc = "ready"
    /\ recipe_content = ""
    /\ recipe_name = ""
    /\ recipe_card_content = ""
    /\ html_lines = <<>>
    /\ full_html = ""
    /\ name = ""
    /\ max_len = 0
    /\ display_name = ""
    /\ AppIdle

NextCalls ==
    \E c \in DOMAIN frames :
        TitleStep(c) \/ CardClose(c) \/ CardAppend(c) \/ CardReturn(c)

SpecCalls == InitCalls /\ [][NextCalls]_vars

-----------------------------------------------------------------------------
(* The Streamlit application: src/main.py, src/auth.py, src/saved_recipes.py *)
(* and src/meal_planner.py.  Streamlit runs the script main.py from top to   *)
(* bottom for the first load and after every user event; st.rerun() ends the *)
(* run and starts another one without an event.  st.session_state is the     *)
(* only state the script keeps between runs; the tables live in the database.*)

\* Python's None
None == "None"

\* the accounts of the authentication provider
Users == {"u1", "u2"}

\* response.user.email and response.session.access_token of an account
EmailOf(u) == u \o "@example.com"
TokenOf(u) == "token-" \o u

\* the text the model lets the language model return
RecipeText == "# Pho"
ShoppingText == "- rice noodles"

\* the session before the first run
NoKeys == [k \in {} |-> None]

\* st.session_state[k] = v
Put(ss, k, v) == [x \in DOMAIN ss \cup {k} |-> IF x = k THEN v ELSE ss[x]]

\* for key, default_value in defaults.items():
\*     if key not in st.session_state: st.session_state[key] = default_value
SetDefaults(ss, defaults) ==
    [x \in DOMAIN ss \cup DOMAIN defaults |->
        IF x \in DOMAIN ss THEN ss[x] ELSE defaults[x]]

\* the keys of default_states the model follows: the authentication keys, the
\* flag logout clears, and one content key
DefaultStates ==
    [user |-> None, user_email |-> None, access_token |-> None,
     refresh_token |-> None, show_saved_recipes |-> FALSE,
     surprise_recipe_content |-> ""]

initialize_session_state(ss) == SetDefaults(ss, DefaultStates)

\* SavedRecipesManager._initialize_filter_state: the delete confirmation
initialize_filter_state(ss) == SetDefaults(ss, [confirm_delete_id |-> None])

\* today - timedelta(days=today.weekday()); day 0 is a Monday
MondayOf(day) == day - (day % 7)

\* initialize_planner_state that starts the planner on the day of the first run
initialize_planner_state_Today(ss, day) ==
    SetDefaults(ss, [meal_planner_week_start |-> day,
                     meal_planner_shopping_list |-> ""])

\* MealPlanner._initialize_planner_state
initialize_planner_state(ss, day) ==
    SetDefaults(ss, [meal_planner_week_start |-> MondayOf(day),
                     meal_planner_shopping_list |-> ""])

\* the outcomes of sign_in_with_password the code distinguishes: no client, an
\* exception, a response without a user, a response with a user and no
\* session, a response with a user and a session
LoginOutcomes == {"unavailable", "raises", "no_user", "no_session", "ok"}

\* AuthManager.login: the session after the call and the value returned.  With
\* a user and no session, lines 58 and 59 have run when line 60 raises on
\* response.session.access_token, and the except clause returns False.
login(ss, out, u) ==
    IF out \in {"unavailable", "raises", "no_user"} THEN [ss |-> ss, ok |-> FALSE]
    ELSE LET named == Put(Put(ss, "user", u), "user_email", EmailOf(u))
         IN  IF out = "no_session" THEN [ss |-> named, ok |-> FALSE]
             ELSE [ss |-> Put(named, "access_token", TokenOf(u)), ok |-> TRUE]

\* logout that also sends the session back to the first page
logout_ResetsPage(ss) ==
    Put(Put(Put(Put(Put(ss, "user", None), "user_email", None),
        "access_token", None), "show_saved_recipes", FALSE),
        "page", "Recipe Generator")

\* AuthManager.logout
logout(ss) ==
    Put(Put(Put(Put(ss, "user", None), "user_email", None),
        "access_token", None), "show_saved_recipes", FALSE)

\* AuthManager.is_authenticated
is_authenticated(ss) == ss["user"] # None

\* A script run in progress: the session, the tables, the widgets rendered so
\* far, the manager calls made so far, the view dispatched, and whether
\* st.rerun() has ended the run.
StartRun(ss, recipes, meals) ==
    [ss |-> ss, recipes |-> recipes, meals |-> meals, screen |-> {},
     calls |-> <<>>, view |-> "", stop |-> FALSE]

\* st.button(...) and the other widgets put on the page
Show(r, widgets) == [r EXCEPT !.screen = @ \cup widgets]

\* a manager method is called
Call(r, call) == [r EXCEPT !.calls = Append(@, call)]

\* An event: the widget the user acted on (kind, arg), what the provider or
\* the database answers in this run (out, user), and whether the reads of
\* this run succeed.
Event(kind, arg, out, u, read_ok) ==
    [kind |-> kind, arg |-> arg, out |-> out, user |-> u, read_ok |-> read_ok]

\* AuthManager._render_login_form; 'empty' stands for a click with an empty
\* e-mail or password field
render_login_form(r, ev) ==
    LET shown == Show(r, {<<"login", "">>})
    IN  IF ev.kind = "login" /\ ev.out # "empty"
        THEN LET res == login(r.ss, ev.out, ev.user)
             IN  [shown EXCEPT !.ss = res.ss, !.stop = res.ok]
        ELSE shown

\* AuthManager.render_sidebar
render_sidebar(r, ev) ==
    IF ~ is_authenticated(r.ss) THEN render_login_form(r, ev)
    ELSE LET shown == Show(r, {<<"logout", "">>})
         IN  IF ev.kind = "logout"
             THEN [shown EXCEPT !.ss = logout(r.ss), !.stop = TRUE]
             ELSE shown

\* nav_options that always lists the four pages
nav_options_AllPages(ss) ==
    <<"Recipe Generator", "Saved Recipes", "Meal Planner", "About">>

\* nav_options of main.py; a user id is a non-empty string, so
\* 'if st.session_state.user' is the test for None
nav_options(ss) ==
    IF ss["user"] # None
    THEN <<"Recipe Generator", "Saved Recipes", "Meal Planner", "About">>
    ELSE <<"Recipe Generator", "About">>

\* The navigation radio and 'st.session_state.page = selected'.  st.radio
\* returns the option the user clicked, and otherwise the option at index:
\* the widget's own last selection is the page of the last run, and a widget
\* whose options changed starts again from index.
Navigate(r, ev) ==
    LET options == nav_options(r.ss)
        places == {i \in DOMAIN options : options[i] = r.ss["page"]}
        index == IF places # {} THEN CHOOSE i \in places : TRUE ELSE 1
        clicked == ev.kind = "nav" /\ \E i \in DOMAIN options : options[i] = ev.arg
        selected == IF clicked THEN ev.arg ELSE options[index]
    IN  [Show(r, {<<"nav", options[i]>> : i \in DOMAIN options})
            EXCEPT !.ss = Put(@, "page", selected)]

\* the recipe ids and meal-plan ids the database hands out
RecipeIds == {"r1", "r2"}
MealIds == {"m1"}

\* the rows of a table that belong to a user
RowsOf(table, u) == {x \in table : x.user_id = u}

\* SavedRecipesManager.render_save_button for the surprise recipe; the insert
\* gives the row a free id
render_save_button(r, ev) ==
    LET shown == Show(r, {<<"save", "">>})
        id == CHOOSE i \in RecipeIds : \A x \in r.recipes : x.id # i
    IN  IF ev.kind = "save"
        THEN LET called == Call(shown, <<"save_recipe", r.ss["user"]>>)
             IN  IF ev.out = "ok"
                 THEN [called EXCEPT !.recipes =
                          @ \cup {[id |-> id, user_id |-> r.ss["user"]]}]
                 ELSE called
        ELSE shown

\* the recipe generator page of main.py, with the 'Surprise Me' button and the
\* save button of the surprise recipe; the other generator tabs keep their
\* output in session keys of their own
render_generator_page(r, ev) ==
    LET shown == Show([r EXCEPT !.view = "Recipe Generator"], {<<"surprise", "">>})
        made == IF ev.kind = "surprise" /\ ev.out = "ok"
                THEN [shown EXCEPT !.ss = Put(@, "surprise_recipe_content", RecipeText)]
                ELSE shown
    IN  IF made.ss["surprise_recipe_content"] # "" /\ made.ss["user"] # None
        THEN render_save_button(made, ev)
        ELSE made

\* the delete control that deletes on the first click
render_full_recipe_content_OneClick(r, id, ev) ==
    LET shown == Show(r, {<<"delete", id>>})
    IN  IF ev.kind = "delete" /\ ev.arg = id
        THEN LET called == Call(shown, <<"delete_recipe", id>>)
             IN  IF ev.out = "ok"
                 THEN [called EXCEPT !.recipes = {x \in @ : x.id # id},
                                     !.stop = TRUE]
                 ELSE called
        ELSE shown

\* the delete control of SavedRecipesManager._render_full_recipe_content,
\* with delete_recipe
render_full_recipe_content(r, id, ev) ==
    IF r.ss["confirm_delete_id"] = id
    THEN LET shown == Show(r, {<<"confirm", id>>, <<"cancel", id>>})
         IN  IF ev.kind = "confirm" /\ ev.arg = id
             THEN LET called == Call(shown, <<"delete_recipe", id>>)
                  IN  IF ev.out = "ok"
                      THEN [called EXCEPT
                               !.recipes = {x \in @ : x.id # id},
                               !.ss = Put(@, "confirm_delete_id", None),
                               !.stop = TRUE]
                      ELSE called
             ELSE IF ev.kind = "cancel" /\ ev.arg = id
             THEN [shown EXCEPT !.ss = Put(@, "confirm_delete_id", None),
                                !.stop = TRUE]
             ELSE shown
    ELSE LET shown == Show(r, {<<"delete", id>>})
         IN  IF ev.kind = "delete" /\ ev.arg = id
             THEN [shown EXCEPT !.ss = Put(@, "confirm_delete_id", id),
                                !.stop = TRUE]
             ELSE shown

\* 'for idx, recipe in enumerate(recipes)' of the recipe views, until st.rerun()
RECURSIVE render_compact_view(_, _, _)
render_compact_view(r, ids, ev) ==
    IF ids = {} \/ r.stop THEN r
    ELSE LET id == CHOOSE x \in ids : TRUE
         IN  render_compact_view(render_full_recipe_content(r, id, ev),
                                 ids \ {id}, ev)

\* SavedRecipesManager.render_saved_recipes_view with get_user_recipes; the
\* filters are at their defaults, so every recipe of the user is listed
render_saved_recipes_view(r, ev) ==
    LET shown == Show([r EXCEPT !.view = "Saved Recipes"], {<<"return", "">>})
    IN  IF ev.kind = "return"
        THEN [shown EXCEPT !.ss = Put(@, "show_saved_recipes", FALSE),
                           !.stop = TRUE]
        ELSE IF shown.ss["user"] = None THEN shown
        ELSE LET loaded == Call(shown, <<"get_user_recipes", shown.ss["user"]>>)
                 rows == IF ev.read_ok THEN RowsOf(r.recipes, r.ss["user"]) ELSE {}
             IN  render_compact_view(loaded, {x.id : x \in rows}, ev)

\* week navigation that keeps the cached shopping list
render_week_navigation_KeepsList(r, ev, day) ==
    LET week_start == r.ss["meal_planner_week_start"]
        current_monday == MondayOf(day)
        moved(w) == [r EXCEPT !.ss = Put(@, "meal_planner_week_start", w),
                              !.stop = TRUE]
    IN  IF ev.kind = "prev" THEN moved(week_start - 7)
        ELSE IF week_start # current_monday /\ ev.kind = "jump"
             THEN moved(current_monday)
        ELSE IF ev.kind = "next" THEN moved(week_start + 7)
        ELSE Show(r, {<<"prev", "">>, <<"next", "">>}
                         \cup (IF week_start # current_monday
                               THEN {<<"jump", "">>} ELSE {}))

\* MealPlanner._render_week_navigation
render_week_navigation(r, ev, day) ==
    LET week_start == r.ss["meal_planner_week_start"]
        current_monday == MondayOf(day)
        moved(w) == [r EXCEPT !.ss = Put(Put(@, "meal_planner_week_start", w),
                                         "meal_planner_shopping_list", ""),
                              !.stop = TRUE]
    IN  IF ev.kind = "prev" THEN moved(week_start - 7)
        ELSE IF week_start # current_monday /\ ev.kind = "jump"
             THEN moved(current_monday)
        ELSE IF ev.kind = "next" THEN moved(week_start + 7)
        ELSE Show(r, {<<"prev", "">>, <<"next", "">>}
                         \cup (IF week_start # current_monday
                               THEN {<<"jump", "">>} ELSE {}))

\* MealPlanner._render_weekly_calendar with remove_meal_from_plan
render_weekly_calendar(r, meals, ev) ==
    LET shown == Show(r, {<<"remove", m.id>> : m \in meals})
    IN  IF ev.kind = "remove" /\ \E m \in meals : m.id = ev.arg
        THEN LET called == Call(shown, <<"remove_meal_from_plan", ev.arg>>)
             IN  IF ev.out = "ok"
                 THEN [called EXCEPT
                          !.meals = {m \in @ : m.id # ev.arg},
                          !.ss = Put(@, "meal_planner_shopping_list", ""),
                          !.stop = TRUE]
                 ELSE called
        ELSE shown

\* MealPlanner._render_add_meal_form with add_meal_to_plan.  'saved' adds the
\* first saved recipe of the user, 'custom' a meal with a typed name; without
\* a name ('empty', or 'saved' with no saved recipe) the form only warns.
render_add_meal_form(r, week_start, ev) ==
    LET shown == Show(r, {<<"add", "">>})
        mine == IF ev.read_ok THEN RowsOf(r.recipes, r.ss["user"]) ELSE {}
        named == ev.out = "custom" \/ (ev.out = "saved" /\ mine # {})
                    \/ (ev.out = "fail")
        recipe_id == IF ev.out = "saved" THEN (CHOOSE x \in mine : TRUE).id ELSE None
        id == CHOOSE i \in MealIds : \A m \in r.meals : m.id # i
    IN  IF ev.kind = "add" /\ named
        THEN LET called == Call(shown, <<"add_meal_to_plan", r.ss["user"]>>)
             IN  IF ev.out # "fail"
                 THEN [called EXCEPT
                          !.meals = @ \cup {[id |-> id, user_id |-> r.ss["user"],
                                             week |-> week_start,
                                             recipe_id |-> recipe_id]},
                          !.ss = Put(@, "meal_planner_shopping_list", ""),
                          !.stop = TRUE]
                 ELSE called
        ELSE shown

\* MealPlanner._render_weekly_shopping_list: the button is there when a meal
\* of the week is joined to the content of a saved recipe
render_weekly_shopping_list(r, meals, ev) ==
    LET recipes_with_content ==
            {m \in meals : \E x \in r.recipes : x.id = m.recipe_id}
    IN  IF meals = {} \/ recipes_with_content = {} THEN r
        ELSE LET shown == Show(r, {<<"generate", "">>})
             IN  IF ev.kind = "generate"
                 THEN [shown EXCEPT
                          !.ss = Put(@, "meal_planner_shopping_list", ShoppingText)]
                 ELSE shown

\* MealPlanner.render_meal_planner_view with get_meals_for_week
render_meal_planner_view(r, ev, day) ==
    LET view == [r EXCEPT !.view = "Meal Planner"]
    IN  IF view.ss["user"] = None THEN view
        ELSE LET nav == render_week_navigation(view, ev, day)
                 week_start == nav.ss["meal_planner_week_start"]
                 loaded == Call(nav, <<"get_meals_for_week", nav.ss["user"]>>)
                 meals == IF ev.read_ok
                          THEN {m \in RowsOf(r.meals, r.ss["user"]) :
                                   m.week = week_start}
                          ELSE {}
                 calendar == render_weekly_calendar(loaded, meals, ev)
                 form == render_add_meal_form(calendar, week_start, ev)
             IN  IF nav.stop THEN nav
                 ELSE IF calendar.stop THEN calendar
                 ELSE IF form.stop THEN form
                 ELSE render_weekly_shopping_list(form, meals, ev)

\* PAGE ROUTING of main.py
Route(r, ev, day) ==
    IF r.ss["page"] = "Saved Recipes" THEN render_saved_recipes_view(r, ev)
    ELSE IF r.ss["page"] = "Meal Planner" THEN render_meal_planner_view(r, ev, day)
    ELSE IF r.ss["page"] = "About" THEN [r EXCEPT !.view = "About"]
    ELSE render_generator_page(r, ev)

\* one run of the script main.py
main(ss, recipes, meals, day, ev) ==
    LET defaults == initialize_session_state(ss)
        paged == SetDefaults(defaults, [page |-> "Recipe Generator"])
        managers == initialize_planner_state(initialize_filter_state(paged), day)
        sidebar == render_sidebar(StartRun(managers, recipes, meals), ev)
    IN  IF sidebar.stop THEN sidebar
        ELSE Route(Navigate(sidebar, ev), ev, day)

-----------------------------------------------------------------------------
(* The runs of the script *)

\* the last run, before the first run
NoRun ==
    [event |-> Event("none", "", "", None, TRUE), view |-> "", calls |-> <<>>]

\* the state after the run r of the script with the event ev.  After st.rerun()
\* nothing of the aborted run stays on the page: the next run renders it again.
EndRun(r, ev) ==
    /\ session' = r.ss
    /\ saved_recipes' = r.recipes
    /\ meal_plans' = r.meals
    /\ screen' = IF r.stop THEN {} ELSE r.screen
    /\ rerun' = r.stop
    /\ last' = [event |-> ev, view |-> r.view, calls |-> r.calls]
    /\ UNCHANGED <<today, all_recipes, filtered_recipes>>
    /\ UNCHANGED textVars

\* one script run with the event ev
ScriptRun(ev) == EndRun(main(session, saved_recipes, meal_plans, today, ev), ev)

\* the user acts on a widget the last run rendered
OnScreen(kind, arg) == ~ rerun /\ <<kind, arg>> \in screen

\* a run without an event, with or without a working database
Plain(ok) == Event("none", "", "", None, ok)

\* a click on a button of a view, with the answer of the database to the
\* write.  The reads of the run succeed: when a read fails the view returns
\* before it reaches the button, and the run is a run without an event.
Click(kind, arg, out) == Event(kind, arg, out, None, TRUE)

InitApp ==
    /\ session = NoKeys
    /\ saved_recipes = {}
    /\ meal_plans = {}
    /\ today \in {5, 6}
    /\ screen = {}
    /\ rerun = TRUE
    /\ last = NoRun
    /\ all_recipes = <<>>
    /\ filtered_recipes = <<>>
    /\ pc = "app"
    /\ recipe_content = ""
    /\ recipe_name = ""
    /\ recipe_card_content = ""
    /\ html_lines = <<>>
    /\ full_html = ""
    /\ name = ""
    /\ max_len = 0
    /\ display_name = ""
    /\ frames = <<>>

\* the first load of the page, and the run st.rerun() starts
Rerun == rerun /\ \E ok \in BOOLEAN : ScriptRun(Plain(ok))

\* a run started by a widget that changes none of the keys followed here
OtherInput == ~ rerun /\ \E ok \in BOOLEAN : ScriptRun(Plain(ok))

\* the 'Login' button
Login ==
    /\ OnScreen("login", "")
    /\ \E out \in LoginOutcomes \cup {"empty"}, ok \in BOOLEAN :
          \E u \in (IF out \in {"no_session", "ok"} THEN Users ELSE {None}) :
              ScriptRun(Event("login", "", out, u, ok))

\* the 'Logout' button
Logout == OnScreen("logout", "") /\ ScriptRun(Click("logout", "", ""))

\* an option of the navigation radio
SelectPage ==
    \E p \in {"Recipe Generator", "Saved Recipes", "Meal Planner", "About"},
       ok \in BOOLEAN :
        OnScreen("nav", p) /\ ScriptRun(Event("nav", p, "", None, ok))

\* the 'Surprise Me!' button; the language model returns a recipe or nothing
SurpriseMe ==
    /\ OnScreen("surprise", "")
    /\ \E out \in {"ok", "fail"} : ScriptRun(Click("surprise", "", out))

\* the 'Save This Recipe' button
SaveRecipe ==
    /\ OnScreen("save", "")
    /\ \E out \in {"ok", "fail"} :
          /\ out = "ok" => \E i \in RecipeIds : \A x \in saved_recipes : x.id # i
          /\ ScriptRun(Click("save", "", out))

\* the 'Return to Recipe Generator' button
ReturnToGenerator ==
    OnScreen("return", "") /\ ScriptRun(Click("return", "", ""))

\* the 'Delete Recipe' button of a recipe
ClickDelete ==
    \E x \in saved_recipes :
        OnScreen("delete", x.id) /\ ScriptRun(Click("delete", x.id, ""))

\* the 'Yes, delete' button of a recipe
ConfirmDelete ==
    \E x \in saved_recipes, out \in {"ok", "fail"} :
        OnScreen("confirm", x.id) /\ ScriptRun(Click("confirm", x.id, out))

\* the 'Cancel' button of a recipe
CancelDelete ==
    \E x \in saved_recipes :
        OnScreen("cancel", x.id) /\ ScriptRun(Click("cancel", x.id, ""))

\* the 'Previous Week' button
PreviousWeek ==
    /\ OnScreen("prev", "")
    /\ session["meal_planner_week_start"] > - 7 * MaxWeeks
    /\ ScriptRun(Click("prev", "", ""))

\* the 'Next Week' button
NextWeek ==
    /\ OnScreen("next", "")
    /\ session["meal_planner_week_start"] < 7 * MaxWeeks
    /\ ScriptRun(Click("next", "", ""))

\* the 'Jump to Current Week' button
JumpToCurrentWeek ==
    OnScreen("jump", "") /\ ScriptRun(Click("jump", "", ""))

\* the remove button of a planned meal
RemoveMeal ==
    \E m \in meal_plans, out \in {"ok", "fail"} :
        OnScreen("remove", m.id) /\ ScriptRun(Click("remove", m.id, out))

\* the 'Add to Plan' button of the form
AddMeal ==
    /\ OnScreen("add", "")
    /\ \E out \in {"empty", "custom", "saved", "fail"} :
          /\ out \in {"custom", "saved"} =>
                \E i \in MealIds : \A m \in meal_plans : m.id # i
          /\ ScriptRun(Click("add", "", out))

\* the 'Generate Weekly Shopping List' button
GenerateShoppingList ==
    OnScreen("generate", "") /\ ScriptRun(Click("generate", "", ""))

\* the date changes
Midnight ==
    /\ today < 6 + MaxDays
    /\ today' = today + 1
    /\ UNCHANGED <<session, saved_recipes, meal_plans, screen, rerun, last,
                   all_recipes, filtered_recipes>>
    /\ UNCHANGED textVars

\* logging in and out and moving between the pages
NextAuth ==
    \/ Rerun
    \/ OtherInput
    \/ Login
    \/ Logout
    \/ SelectPage
    \/ SurpriseMe
    \/ ReturnToGenerator

SpecAuth == InitApp /\ [][NextAuth]_vars

\* saving and deleting recipes
NextDelete ==
    \/ Rerun
    \/ Login
    \/ Logout
    \/ SelectPage
    \/ SurpriseMe
    \/ SaveRecipe
    \/ ClickDelete
    \/ ConfirmDelete
    \/ CancelDelete

SpecDelete == InitApp /\ [][NextDelete]_vars

\* planning the meals of a week
NextPlanner ==
    \/ Rerun
    \/ Login
    \/ Logout
    \/ SelectPage
    \/ PreviousWeek
    \/ NextWeek
    \/ JumpToCurrentWeek
    \/ RemoveMeal
    \/ AddMeal
    \/ GenerateShoppingList
    \/ Midnight

\* the planner starts with the table saved_recipes as an earlier session left it
InitPlanner ==
    /\ session = NoKeys
    /\ saved_recipes = {[id |-> "r1", user_id |-> "u1"]}
    /\ meal_plans = {}
    /\ today \in {5, 6}
    /\ screen = {}
    /\ rerun = TRUE
    /\ last = NoRun
    /\ all_recipes = <<>>
    /\ filtered_recipes = <<>>
    /\ pc = "app"
    /\ recipe_content = ""
    /\ recipe_name = ""
    /\ recipe_card_content = ""
    /\ html_lines = <<>>
    /\ full_html = ""
    /\ name = ""
    /\ max_len = 0
    /\ display_name = ""
    /\ frames = <<>>

SpecPlanner == InitPlanner /\ [][NextPlanner]_vars

-----------------------------------------------------------------------------
(* Properties of extract_recipe_name, checked under SpecTitle *)

\* the places of s where p stands
Places(s, p) == {i \in 1..(Len(s) - Len(p) + 1) : SubSeq(s, i, i + Len(p) - 1) = p}

\* the number of places of s where p stands
Count(s, p) == Cardinality(Places(s, p))

\* the lines of the input of the call
ContentLines == SplitLines(recipe_content)

\* C1: for every non-empty input the returned title has between 3 and 80
\* characters, whichever pass produced it.
C1_TitleLengthInRange ==
    (pc = "done" /\ recipe_content # "")
        => (3 <= Len(recipe_name) /\ Len(recipe_name) <= 80)

\* a heading longer than 80 characters was cut to exactly 80
C1_Witness ==
    /\ pc = "done"
    /\ recipe_content = " # " \o LongTitle
    /\ Len(recipe_name) = 80

\* C2: the returned title contains no '#' and no '*' character, also when the
\* heading pass or the standalone-bold pass returned it.
C2_NoMarkdownMarkers ==
    pc = "done" => (~ Contains(recipe_name, "#") /\ ~ Contains(recipe_name, "*"))

\* every character of the text is whitespace (this includes the empty text)
OnlyBlankLines(text) == \A i \in 1..Len(text) : At(text, i) \in WhiteSpace

\* C6: the empty input and an input of only blank or whitespace-only lines give
\* exactly "Untitled Recipe", and no input gives the empty string.  (That the
\* call returns for every input is TLC evaluating ExtractRecipeName in every
\* initial state.)
C6_UntitledForBlankInput ==
    pc = "done" =>
        /\ OnlyBlankLines(recipe_content) => recipe_name = "Untitled Recipe"
        /\ recipe_name # ""

\* two whitespace-only lines gave the literal
C6_Witness ==
    /\ pc = "done"
    /\ recipe_content = " \t\n"
    /\ recipe_name = "Untitled Recipe"

\* the section keywords the heading pass is said to skip
C7_SectionKeywords ==
    {"ingredients", "instructions", "directions", "steps",
     "tips", "notes", "shopping", "servings"}

\* the text of a heading line: the trimmed line without its leading '#' markers
\* and without the whitespace around what is left
C7_HeadingText(line) == Strip(LStripChars(Strip(line), {"#"}))

\* a line the heading pass is said to accept
C7_Accepted(line) ==
    /\ Strip(line) # ""
    /\ At(Strip(line), 1) = "#"
    /\ Len(C7_HeadingText(line)) >= 3
    /\ \A w \in C7_SectionKeywords :
          Take(Lower(C7_HeadingText(line)), Len(w)) # w

\* C7: when some line is a heading whose text has at least 3 characters and does
\* not begin, in any letter case, with a section keyword, the result is the text
\* of the first such line cut to 80 characters; headings failing the test are
\* skipped.  '# Garlic Butter Shrimp\n\nIngredients:\n- shrimp' gives
\* 'Garlic Butter Shrimp'.
C7_HeadingPass ==
    pc = "done" =>
        /\ \A i \in 1..Len(ContentLines) :
              (/\ C7_Accepted(ContentLines[i])
               /\ \A j \in 1..(i - 1) : ~ C7_Accepted(ContentLines[j]))
                  => recipe_name = Take(C7_HeadingText(ContentLines[i]), 80)
        /\ recipe_content = GarlicExample => recipe_name = "Garlic Butter Shrimp"

\* a section heading was skipped and the heading after it returned
C7_Witness ==
    /\ pc = "done"
    /\ recipe_content = "## Ingredients\n# Garlic Butter Shrimp"
    /\ recipe_name = "Garlic Butter Shrimp"

\* the form of a line after removing '#', '*' and the surrounding whitespace
C8_Cleaned(line) == Strip(RemoveChars(line, {"#", "*"}))

\* no line qualifies in the heading, standalone-bold or first-line pass
C8_NoPassQualifies ==
    \A i \in 1..Len(ContentLines) :
        /\ ~ HeadingQualifies(ContentLines[i])
        /\ ~ BoldQualifies(ContentLines[i])
        /\ ~ FirstLineQualifies(ContentLines[i])

\* C8: when no line qualifies in the first three passes, the result is the first
\* line whose cleaned form is longer than 3 characters, cleaned and cut to 80
\* characters; the single conversational line of the example is skipped by the
\* first-line pass and returned, cleaned, by the fallback.
C8_Fallback ==
    pc = "done" =>
        /\ C8_NoPassQualifies =>
              \A i \in 1..Len(ContentLines) :
                  (/\ Len(C8_Cleaned(ContentLines[i])) > 3
                   /\ \A j \in 1..(i - 1) : Len(C8_Cleaned(ContentLines[j])) <= 3)
                      => recipe_name = Take(C8_Cleaned(ContentLines[i]), 80)
        /\ recipe_content = CurryExample =>
              /\ FirstLineSkipped(CurryExample)
              /\ C8_NoPassQualifies
              /\ recipe_name = CurryExample

\* a short line was passed over and a line of 87 characters returned cut to 80
C8_Witness ==
    /\ pc = "done"
    /\ recipe_content = "ab\n" \o LongTitle
    /\ C8_NoPassQualifies
    /\ recipe_name = Take(Strip(LongTitle), 80)

\* the lines that qualify in each pass
HeadingHits == {i \in 1..Len(ContentLines) : HeadingQualifies(ContentLines[i])}
BoldHits == {i \in 1..Len(ContentLines) : BoldQualifies(ContentLines[i])}
FirstLineHits == {i \in 1..Len(ContentLines) : FirstLineQualifies(ContentLines[i])}

\* the first-line pass runs: the two passes before it returned nothing
FirstLinePassRuns == HeadingHits = {} /\ BoldHits = {}

\* what the fallback gives: the first line of the text whose cleaned form is
\* longer than 3 characters, cut to 80, and the literal when there is none
FallbackTitle ==
    LET long == {i \in 1..Len(ContentLines) : Len(C8_Cleaned(ContentLines[i])) > 3}
    IN  IF long = {} THEN "Untitled Recipe"
        ELSE Take(C8_Cleaned(ContentLines[MinOf(long)]), 80)

\* C13: the passes are ordered over the whole text: when some line qualifies in
\* the heading pass the first such line is returned, also when a qualifying
\* standalone-bold or plain line stands before it; a qualifying standalone-bold
\* line is returned before any earlier plain line; the first-line pass decides
\* only when the two passes before it found no line.
C13_PassesOverWholeText ==
    pc = "done" =>
        /\ HeadingHits # {} =>
              recipe_name = Take(HeadingName(ContentLines[MinOf(HeadingHits)]), 80)
        /\ (HeadingHits = {} /\ BoldHits # {}) =>
              recipe_name = Take(BoldName(ContentLines[MinOf(BoldHits)]), 80)
        /\ (HeadingHits = {} /\ BoldHits = {} /\ FirstLineHits # {}) =>
              recipe_name = CleanMarkdown(ContentLines[MinOf(FirstLineHits)])

\* a plain title, then a standalone-bold line, then a heading: the heading won
C13_Witness ==
    /\ pc = "done"
    /\ recipe_content = "Thai Green Curry\n**Thai Curry**\n# Garlic Butter Shrimp"
    /\ 1 \in FirstLineHits /\ 2 \in BoldHits /\ 3 \in HeadingHits
    /\ recipe_name = "Garlic Butter Shrimp"

\* the whole trimmed line is one bold span: '**', a text without '**', '**'
C14_OneBoldSpan(line) ==
    LET t == Strip(line)
    IN  /\ Len(t) >= 5
        /\ Take(t, 2) = "**"
        /\ SubSeq(t, Len(t) - 1, Len(t)) = "**"
        /\ ~ Contains(SubSeq(t, 3, Len(t) - 2), "**")

\* C14: the standalone-bold pass returns a line only when the whole trimmed line
\* is one bold span in a single pair of '**'; a line with text outside a bold
\* span or with more than one bold span, such as '**Thai** green **Curry**', is
\* never returned by this pass.
C14_BoldOnlyWholeSpan ==
    pc = "done" =>
        /\ (HeadingHits = {} /\ BoldHits # {}) =>
              C14_OneBoldSpan(ContentLines[MinOf(BoldHits)])
        /\ recipe_content = "**Thai** green **Curry**" =>
              recipe_name # "Thai** green **Curry"

\* the lines that survive the exclusions of the first-line pass
C15_Survivors ==
    {i \in 1..Len(ContentLines) :
        Strip(ContentLines[i]) # "" /\ ~ FirstLineSkipped(Strip(ContentLines[i]))}

\* the first surviving line has a cleaned form of more than 80 characters
C15_LongFirstSurvivor ==
    /\ FirstLinePassRuns
    /\ C15_Survivors # {}
    /\ Len(C8_Cleaned(ContentLines[MinOf(C15_Survivors)])) > 80

\* C15 as stated: when the first line that survives all exclusions of the
\* first-line pass has a cleaned form longer than 80 characters, the function
\* returns that line cut to 80 characters and does not move on to a later line.
C15_LongFirstLineTruncated ==
    (pc = "done" /\ C15_LongFirstSurvivor) =>
        recipe_name = Take(C8_Cleaned(ContentLines[MinOf(C15_Survivors)]), 80)

\* C15 as amended: such a line is not returned by the first-line pass; the pass
\* moves on and returns the first later surviving line whose cleaned form has 3
\* to 80 characters, and when there is none the fallback returns the first line
\* of the whole text whose cleaned form is longer than 3 characters, cut to 80.
C15_LongFirstLineSkipped ==
    (pc = "done" /\ C15_LongFirstSurvivor) =>
        LET later == {j \in C15_Survivors :
                        /\ 3 <= Len(C8_Cleaned(ContentLines[j]))
                        /\ Len(C8_Cleaned(ContentLines[j])) <= 80}
        IN  recipe_name = IF later # {} THEN C8_Cleaned(ContentLines[MinOf(later)])
                          ELSE FallbackTitle

\* a line of 87 characters, then a title: the title was returned
C15_Witness ==
    /\ pc = "done"
    /\ recipe_content = LongTitle \o "\nThai Green Curry"
    /\ C15_LongFirstSurvivor
    /\ recipe_name = "Thai Green Curry"

\* the text the return statement that ran cuts to 80 characters
C16_Uncut ==
    IF HeadingHits # {} THEN HeadingName(ContentLines[MinOf(HeadingHits)])
    ELSE IF BoldHits # {} THEN BoldName(ContentLines[MinOf(BoldHits)])
    ELSE IF FirstLineHits # {} THEN C8_Cleaned(ContentLines[MinOf(FirstLineHits)])
    ELSE LET long == {i \in 1..Len(ContentLines) : Len(C8_Cleaned(ContentLines[i])) > 3}
         IN  IF long = {} THEN "Untitled Recipe" ELSE C8_Cleaned(ContentLines[MinOf(long)])

\* the whitespace positions among the first 80 characters of s
C16_Spaces(s) == {i \in 1..80 : i <= Len(s) /\ At(s, i) \in WhiteSpace}

\* C16 as stated: a title longer than 80 characters is cut at 80 and then back
\* to the last whitespace before the cut, so it does not end inside a word when
\* the first 80 characters hold whitespace; no ellipsis is appended.
C16_CutAtWordBoundary ==
    (pc = "done" /\ Len(C16_Uncut) > 80 /\ C16_Spaces(C16_Uncut) # {}) =>
        /\ recipe_name = SubSeq(C16_Uncut, 1, MaxOf(C16_Spaces(C16_Uncut)) - 1)
        /\ At(C16_Uncut, Len(recipe_name) + 1) \in WhiteSpace

\* C16 as amended: a title longer than 80 characters is returned as exactly its
\* first 80 characters: nothing is dropped after the cut, so the title can end
\* inside a word, and no ellipsis is appended.
C16_CutAtEighty ==
    (pc = "done" /\ Len(C16_Uncut) > 80) =>
        /\ Len(recipe_name) = 80
        /\ recipe_name = SubSeq(C16_Uncut, 1, 80)

\* a standalone-bold line of 87 characters cut inside its eighth word
C16_Witness ==
    /\ pc = "done"
    /\ recipe_content = "**" \o LongTitle \o "**"
    /\ Len(C16_Uncut) = 87
    /\ SubSeq(recipe_name, 72, 80) = "Roast Slo"
    /\ At(C16_Uncut, 81) = "w"

\* the filler words of the first-line pass
C17_Fillers ==
    {"here", "suggest", "perfect", "delicious", "enjoy",
     "this is", "try this", "sure!", "absolutely", "great choice"}

\* the line contains a filler word anywhere, in any letter case
C17_HasFiller(line) == \E w \in C17_Fillers : Places(Lower(line), w) # {}

\* the line passes the other tests of the first-line pass: not blank, no
\* metadata marker, no bullet, no numbered step, a cleaned form of 3 to 80
C17_OtherwiseTitle(line) ==
    LET t == Strip(line)
    IN  /\ t # ""
        /\ ~ \E p \in MetadataPatterns : Contains(Lower(t), p)
        /\ Take(t, 1) \notin {"-", BulletChar}
        /\ ~ NumberedStep(t)
        /\ 3 <= Len(C8_Cleaned(t))
        /\ Len(C8_Cleaned(t)) <= 80

\* C17: the filler check is a case-insensitive substring test: a line that
\* contains a filler word anywhere, also inside a longer word as in 'enjoyable'
\* or 'Cheresy', is never returned by the first-line pass; the pass returns the
\* first line without filler that passes its other tests, and the fallback
\* decides when there is none.
C17_FillerIsSubstring ==
    (pc = "done" /\ FirstLinePassRuns) =>
        LET titles == {i \in 1..Len(ContentLines) :
                          /\ ~ C17_HasFiller(ContentLines[i])
                          /\ C17_OtherwiseTitle(ContentLines[i])}
        IN  /\ \A i \in 1..Len(ContentLines) :
                  ContentLines[i] \in {"An enjoyable stew", "Cheresy Pie"}
                      => C17_HasFiller(ContentLines[i])
            /\ recipe_name = IF titles # {} THEN C8_Cleaned(ContentLines[MinOf(titles)])
                              ELSE FallbackTitle

\* 'here' inside 'Cheresy': the line was passed over for the one after it
C17_Witness ==
    /\ pc = "done"
    /\ recipe_content = "Cheresy Pie\nThai Green Curry"
    /\ FirstLinePassRuns
    /\ recipe_name = "Thai Green Curry"

\* the metadata words of the first-line pass, without the rule marker
C18_MetadataWords ==
    {"servings:", "prep time:", "cook time:", "total time:",
     "ingredients:", "instructions:", "directions:"}

\* the line passes the tests of the first-line pass other than the rule marker
C18_OtherwiseTitle(line) ==
    LET t == Strip(line)
    IN  /\ t # ""
        /\ ~ \E p \in IntroPatterns \cup C18_MetadataWords : Contains(Lower(t), p)
        /\ Take(t, 1) \notin {"-", BulletChar}
        /\ ~ NumberedStep(t)
        /\ 3 <= Len(C8_Cleaned(t))
        /\ Len(C8_Cleaned(t)) <= 80

\* C18 as stated: the rule marker excludes only a line that is exactly '---'; a
\* line that contains '---' inside other text and hits no other exclusion stays
\* a candidate, so the first-line pass returns the first such candidate.
C18_OnlyExactRule ==
    (pc = "done" /\ FirstLinePassRuns) =>
        LET titles == {i \in 1..Len(ContentLines) :
                          /\ Strip(ContentLines[i]) # "---"
                          /\ C18_OtherwiseTitle(ContentLines[i])}
        IN  titles # {} => recipe_name = C8_Cleaned(ContentLines[MinOf(titles)])

\* C18 as amended: the rule marker is a substring test like the other metadata
\* markers: every line that contains '---' anywhere is excluded from the
\* first-line pass, which returns the first line without '---' that passes its
\* other tests; the fallback decides when there is none.
C18_RuleMarkerAnywhere ==
    (pc = "done" /\ FirstLinePassRuns) =>
        LET titles == {i \in 1..Len(ContentLines) :
                          /\ Places(ContentLines[i], "---") = {}
                          /\ C18_OtherwiseTitle(ContentLines[i])}
        IN  recipe_name = IF titles # {} THEN C8_Cleaned(ContentLines[MinOf(titles)])
                          ELSE FallbackTitle

\* '---' inside a line: the line was passed over for the one after it
C18_Witness ==
    /\ pc = "done"
    /\ recipe_content = "Soup --- quick\nThai Green Curry"
    /\ FirstLinePassRuns
    /\ recipe_name = "Thai Green Curry"

-----------------------------------------------------------------------------
(* Properties of create_recipe_card_html, checked under SpecCard *)

\* the lines of the input of the call
CardContentLines == SplitLines(recipe_card_content)

\* html_content
HtmlContent == JoinLines(html_lines)

\* C3 as stated: for every input, also one whose lines contain the button markup,
\* the document contains exactly two occurrences of the button markup.
C3_ExactlyTwoButtons ==
    pc = "done" => Count(full_html, ButtonMarkup) = 2

\* C3 as amended: the document is the template around the rendered content with
\* the button markup once before and once after the content, and it contains one
\* further occurrence for each occurrence in the input: exactly two when the
\* input does not contain the button markup.
C3_TwoButtonsAroundContent ==
    pc = "done" =>
        LET content == HtmlContent
            before == Len(full_html) - Len(content) - Len(TemplateTail)
            buttons == Places(full_html, ButtonMarkup)
        IN  /\ before >= 0
            /\ SubSeq(full_html, before + 1, before + Len(content)) = content
            /\ Cardinality({i \in buttons : i + Len(ButtonMarkup) - 1 <= before}) = 1
            /\ Cardinality({i \in buttons : i > before + Len(content)}) = 1
            /\ Cardinality(buttons) = 2 + Count(recipe_card_content, ButtonMarkup)
            /\ ~ Contains(recipe_card_content, ButtonMarkup)
                   => Cardinality(buttons) = 2

\* an input with HTML of its own but without the button markup gave two buttons
C3_Witness ==
    /\ pc = "done"
    /\ recipe_card_content = "<ul>\n- a"
    /\ Count(full_html, ButtonMarkup) = 2

ListTags == {"<ul>", "</ul>", "<ol>", "</ol>"}

\* the emitted lines from the k-th on are well nested when the list named by
\* open ("none", "ul" or "ol") is open before them: an opening tag only when no
\* list is open, a closing tag only of the open list, an item only inside a list,
\* any other block only outside, and no list open at the end
RECURSIVE C4_Nested(_, _, _)
C4_Nested(hs, k, open) ==
    IF k > Len(hs) THEN open = "none"
    ELSE IF hs[k] = "<ul>" THEN open = "none" /\ C4_Nested(hs, k + 1, "ul")
    ELSE IF hs[k] = "<ol>" THEN open = "none" /\ C4_Nested(hs, k + 1, "ol")
    ELSE IF hs[k] = "</ul>" THEN open = "ul" /\ C4_Nested(hs, k + 1, "none")
    ELSE IF hs[k] = "</ol>" THEN open = "ol" /\ C4_Nested(hs, k + 1, "none")
    ELSE IF Take(hs[k], 4) = "<li>" THEN open # "none" /\ C4_Nested(hs, k + 1, open)
    ELSE open = "none" /\ C4_Nested(hs, k + 1, open)

\* a '- ' line
C4_IsBullet(line) == Take(Strip(line), 2) = "- "

\* a numbered line: digits, a dot, whitespace
C4_IsNumbered(line) ==
    LET t == Strip(line)
    IN  \E k \in 1..(Len(t) - 2) :
            /\ \A i \in 1..k : At(t, i) \in Digits
            /\ At(t, k + 1) = "."
            /\ At(t, k + 2) \in WhiteSpace

\* the number of maximal runs of consecutive lines that satisfy Is
C4_Runs(lines, Is(_)) ==
    Cardinality({i \in 1..Len(lines) :
                    Is(lines[i]) /\ (i = 1 \/ ~ Is(lines[i - 1]))})

\* the number of emitted lines equal to h
C4_Emitted(h) == Cardinality({i \in 1..Len(html_lines) : html_lines[i] = h})

\* C4: in the block output list tags are balanced and never nested: every <li>
\* lies between an opening tag and the closing tag of the same kind, a run of
\* consecutive '- ' lines (or numbered lines) shares one pair, the open list is
\* closed before anything else is emitted, and a list open at the end of the
\* input is closed.  '- a\n- b\n\n1. x\n2. y' gives <ul>, two <li>, </ul>, <ol>,
\* two <li>, </ol>.
C4_ListsBalanced ==
    pc = "done" =>
        /\ C4_Nested(html_lines, 1, "none")
        /\ LET lines == CardContentLines
           IN  /\ C4_Emitted("<ul>") = C4_Runs(lines, C4_IsBullet)
               /\ C4_Emitted("<ol>") = C4_Runs(lines, C4_IsNumbered)
        /\ recipe_card_content = ListsExample =>
              html_lines = <<"<ul>", "<li>a</li>", "<li>b</li>", "</ul>",
                             "<ol>", "<li>x</li>", "<li>y</li>", "</ol>">>

\* a numbered line followed directly by a bullet line: the ordered list was
\* closed before the unordered one opened, and that one closed at the end
C4_Witness ==
    /\ pc = "done"
    /\ recipe_card_content = "1. x\n- a"
    /\ html_lines = <<"<ol>", "<li>x</li>", "</ol>", "<ul>", "<li>a</li>", "</ul>">>

C5_IsBlock(h) == h \notin ListTags
C5_NonBlank(line) == Strip(line) # ""

\* the opening tag of the block a non-blank line is said to emit
C5_Tag(line) ==
    LET t == Strip(line)
    IN  IF Take(t, 2) = "# " THEN "<h1>"
        ELSE IF Take(t, 3) = "## " THEN "<h2>"
        ELSE IF t = "---" THEN "<hr>"
        ELSE IF C4_IsBullet(line) \/ C4_IsNumbered(line) THEN "<li>"
        ELSE "<p>"

\* C5: every non-blank line emits exactly one block element, in input order: the
\* element of its pattern, and a <p> when it matches none; blank lines emit no
\* block element; the empty string gives an empty block body inside the fixed
\* template.
C5_OneBlockPerLine ==
    pc = "done" =>
        LET blocks == SelectSeq(html_lines, C5_IsBlock)
            lines == SelectSeq(CardContentLines, C5_NonBlank)
        IN  /\ Len(blocks) = Len(lines)
            /\ \A i \in 1..Len(lines) :
                  LET tag == C5_Tag(lines[i]) IN Take(blocks[i], Len(tag)) = tag
            /\ recipe_card_content = "" =>
                  /\ html_lines = <<>>
                  /\ full_html = TemplateHead \o TemplateTail

\* a whitespace-only line, then a line that matches no pattern
C5_Witness ==
    /\ pc = "done"
    /\ recipe_card_content = "  \n1) x"
    /\ html_lines = <<"<p>1) x</p>">>

\* s with every occurrence of from replaced by to, left to right
RECURSIVE ReplaceAll(_, _, _)
ReplaceAll(s, from, to) ==
    IF Len(s) < Len(from) THEN s
    ELSE IF Take(s, Len(from)) = from
         THEN to \o ReplaceAll(Drop(s, Len(from)), from, to)
         ELSE At(s, 1) \o ReplaceAll(Tail(s), from, to)

\* the text a paragraph or list-item line hands to the substitution
C9_Source(line) ==
    LET t == Strip(line)
    IN  IF C4_IsBullet(line) THEN Drop(t, 2)
        ELSE IF C4_IsNumbered(line)
             THEN Strip(Drop(t, MinOf({k \in 1..Len(t) : At(t, k) = "."})))
        ELSE t

\* the text between the opening and the closing tag of an emitted <p> or <li>
C9_Inner(block) ==
    IF Take(block, 3) = "<p>" THEN SubSeq(block, 4, Len(block) - 4)
    ELSE SubSeq(block, 5, Len(block) - 5)

\* the pieces of a substituted text that lie outside <strong>...</strong>
RECURSIVE C9_Outside(_)
C9_Outside(t) ==
    LET opens == {i \in 1..(Len(t) - 7) : SubSeq(t, i, i + 7) = "<strong>"}
    IN  IF opens = {} THEN {t}
        ELSE LET a == MinOf(opens)
                 closes == {i \in (a + 8)..(Len(t) - 8) :
                               SubSeq(t, i, i + 8) = "</strong>"}
             IN  IF closes = {} THEN {t}
                 ELSE {SubSeq(t, 1, a - 1)} \cup C9_Outside(Drop(t, MinOf(closes) + 8))

\* a piece still holding a '**text**' span
C9_HasSpan(t) ==
    \E i \in 1..(Len(t) - 1) : \E j \in (i + 3)..(Len(t) - 1) :
        SubSeq(t, i, i + 1) = "**" /\ SubSeq(t, j, j + 1) = "**"

\* C9: in a paragraph line and in a list-item line every '**text**' span is
\* replaced by <strong>text</strong> and the rest of the line is unchanged:
\* putting '**' back for the tags gives the line's text again, and no span is
\* left outside the tags.  '**bold** and plain' renders as
\* <p><strong>bold</strong> and plain</p>.
C9_BoldSpans ==
    pc = "done" =>
        LET blocks == SelectSeq(html_lines, C5_IsBlock)
            lines == SelectSeq(CardContentLines, C5_NonBlank)
        IN  /\ \A i \in 1..Len(lines) :
                  (/\ C5_Tag(lines[i]) \in {"<p>", "<li>"}
                   /\ ~ Contains(lines[i], "<strong>")
                   /\ ~ Contains(lines[i], "</strong>"))
                      => LET inner == C9_Inner(blocks[i])
                         IN  /\ ReplaceAll(ReplaceAll(inner, "<strong>", "**"),
                                           "</strong>", "**") = C9_Source(lines[i])
                             /\ \A piece \in C9_Outside(inner) : ~ C9_HasSpan(piece)
            /\ recipe_card_content = BoldExample =>
                  html_lines = <<"<p><strong>bold</strong> and plain</p>">>

\* two spans in a numbered item, both substituted
C9_Witness ==
    /\ pc = "done"
    /\ recipe_card_content = "10.  **Boil** the **rice**"
    /\ html_lines = <<"<ol>",
                      "<li><strong>Boil</strong> the <strong>rice</strong></li>",
                      "</ol>">>

\* the texts of t that stand between <strong> and the next </strong>
RECURSIVE C20_StrongTexts(_)
C20_StrongTexts(t) ==
    LET opens == Places(t, "<strong>")
    IN  IF opens = {} THEN {}
        ELSE LET a == MinOf(opens)
                 closes == {i \in Places(t, "</strong>") : i >= a + 8}
             IN  IF closes = {} THEN {}
                 ELSE {SubSeq(t, a + 8, MinOf(closes) - 1)}
                          \cup C20_StrongTexts(Drop(t, MinOf(closes) + 8))

\* the emitted <p> and <li> blocks of the lines that hold no tag of their own
C20_Blocks ==
    LET blocks == SelectSeq(html_lines, C5_IsBlock)
        lines == SelectSeq(CardContentLines, C5_NonBlank)
    IN  {i \in 1..Len(lines) :
            /\ C5_Tag(lines[i]) \in {"<p>", "<li>"}
            /\ Places(lines[i], "<strong>") = {}
            /\ Places(lines[i], "</strong>") = {}}

\* C20 as stated: every text wrapped in <strong>...</strong> by the substitution
\* contains no literal '**', on every paragraph and list-item line, also on
\* lines with runs of three or more asterisks.
C20_StrongTextHasNoStars ==
    pc = "done" =>
        LET blocks == SelectSeq(html_lines, C5_IsBlock)
        IN  \A i \in C20_Blocks :
                \A text \in C20_StrongTexts(C9_Inner(blocks[i])) :
                    Places(text, "**") = {}

\* C20 as amended: a wrapped text is never empty and contains no '**' after its
\* first character; it begins with '**' only when the span opens on a run of
\* four or more asterisks, so on a line without such a run it contains no
\* literal '**' at all.
C20_StrongTextStarsOnlyInFront ==
    pc = "done" =>
        LET blocks == SelectSeq(html_lines, C5_IsBlock)
            lines == SelectSeq(CardContentLines, C5_NonBlank)
        IN  \A i \in C20_Blocks :
                \A text \in C20_StrongTexts(C9_Inner(blocks[i])) :
                    /\ text # ""
                    /\ Places(text, "**") \subseteq {1}
                    /\ Places(lines[i], "****") = {} => Places(text, "**") = {}

\* a span that opens on four asterisks: the wrapped text begins with '**'
C20_Witness ==
    /\ pc = "done"
    /\ recipe_card_content = "****a**"
    /\ html_lines = <<"<p><strong>**a</strong></p>">>

\* C21: a heading line ('# ', '## ') and a rule line are emitted without the
\* bold substitution: the block of a heading line is the text after the marker,
\* unmodified, between <h1>..</h1> or <h2>..</h2>, and the block of a rule line
\* is <hr>; a '**' in a heading stays literal while the same text as a paragraph
\* is substituted.
C21_HeadingsKeepStars ==
    pc = "done" =>
        LET blocks == SelectSeq(html_lines, C5_IsBlock)
            lines == SelectSeq(CardContentLines, C5_NonBlank)
        IN  /\ Len(blocks) = Len(lines)
            /\ \A i \in 1..Len(lines) :
                  LET t == Strip(lines[i])
                  IN  /\ C5_Tag(lines[i]) = "<h1>" =>
                             blocks[i] = "<h1>" \o Drop(t, 2) \o "</h1>"
                      /\ C5_Tag(lines[i]) = "<h2>" =>
                             blocks[i] = "<h2>" \o Drop(t, 3) \o "</h2>"
                      /\ C5_Tag(lines[i]) = "<hr>" => blocks[i] = "<hr>"
            /\ recipe_card_content = "# **Hot** pot\n**Hot** pot" =>
                  html_lines = <<"<h1>**Hot** pot</h1>",
                                 "<p><strong>Hot</strong> pot</p>">>

\* the same text as a heading and as a paragraph
C21_Witness ==
    /\ pc = "done"
    /\ recipe_card_content = "# **Hot** pot\n**Hot** pot"
    /\ html_lines = <<"<h1>**Hot** pot</h1>", "<p><strong>Hot</strong> pot</p>">>

-----------------------------------------------------------------------------
(* Properties of the line loop of create_recipe_card_html, checked under SpecLoop *)

\* C19: at every point of the line loop, for every input, at most one of the
\* two list flags is true, so the closing step after the loop appends at most
\* one closing tag.
C19_OneListOpen ==
    \A c \in DOMAIN frames :
        LET f == frames[c]
        IN  /\ ~ (f.st.in_unordered_list /\ f.st.in_ordered_list)
            /\ (f.at = "line" /\ f.i > Len(f.lines)) =>
                  Len(FinalClose(f.st).html_lines) <= Len(f.st.html_lines) + 1

\* between the two halves of the iteration for a '- ' line that follows a
\* numbered line: the ordered list is closed, the unordered one not yet open
C19_Witness ==
    /\ frames[1].arg = "1. x\n- a"
    /\ frames[1].at = "append"
    /\ frames[1].i = 2
    /\ frames[1].st.html_lines = <<"<ol>", "<li>x</li>", "</ol>">>
    /\ ~ frames[1].st.in_unordered_list
    /\ ~ frames[1].st.in_ordered_list

-----------------------------------------------------------------------------
(* Properties of concurrent calls, checked under SpecCalls *)

\* C12: the two functions read and write no state shared between calls: however
\* the steps of the calls interleave, each call returns exactly the value the
\* function returns when it runs alone on the same argument.
C12_CallsDoNotInterfere ==
    \A c \in DOMAIN frames :
        frames[c].at = "done" =>
            frames[c].result =
                IF frames[c].fn = "extract_recipe_name"
                THEN extract_recipe_name(frames[c].arg)
                ELSE create_recipe_card_html(frames[c].arg)

\* two calls of create_recipe_card_html on the same text: the second call
\* returned while the first stood inside its open unordered list
C12_Witness ==
    /\ frames[1].fn = "create_recipe_card_html"
    /\ frames[1].arg = "- a\n1. x"
    /\ frames[1].at = "line"
    /\ frames[1].i = 2
    /\ frames[1].st.in_unordered_list
    /\ frames[2].arg = "- a\n1. x"
    /\ frames[2].at = "done"
    /\ frames[2].result = create_recipe_card_html("- a\n1. x")

-----------------------------------------------------------------------------
(* Properties of _clean_display_name, checked under SpecClean *)

\* s without one trailing ':'
C10_DropColon(s) == IF s # "" /\ At(s, Len(s)) = ":" THEN Take(s, Len(s) - 1) ELSE s

\* the cleaned form of a name: without '#' and '*', without the surrounding
\* whitespace and without the trailing colon
C10_Cleaned(n) == Strip(C10_DropColon(Strip(RemoveChars(n, {"#", "*"}))))

\* C10: _clean_display_name never returns the empty string; it returns
\* "Untitled Recipe" for the empty name and for every name whose cleaned form
\* is empty.
C10_NeverEmpty ==
    pc = "done" =>
        /\ display_name # ""
        /\ name = "" => display_name = "Untitled Recipe"
        /\ C10_Cleaned(name) = "" => display_name = "Untitled Recipe"

\* a name of markers only: its cleaned form is empty
C10_Witness ==
    /\ pc = "done"
    /\ name = "#*"
    /\ max_len = 0
    /\ display_name = "Untitled Recipe"

\* the cleaned and possibly re-extracted string the truncation step looks at
C11_Clean == ReExtract(StripFormatting(name))

\* r is prefix backed off to its last space: prefix itself when it holds no
\* space, else what stands before the last space of prefix
C11_BackedOff(prefix, r) ==
    LET sp == {i \in 1..Len(prefix) : At(prefix, i) = " "}
    IN  IF sp = {} THEN r = prefix
        ELSE \E k \in sp : (\A j \in sp : j <= k) /\ r = SubSeq(prefix, 1, k - 1)

\* C11: for max_len >= 0, when the cleaned string is longer than max_len and no
\* generic header, the result is its first max_len characters backed off to the
\* last space, followed by '...': it ends with '...' and has at most max_len + 3
\* characters; when the cleaned string has at most max_len characters nothing is
\* appended.  A name of 100 'x' with max_len 55 gives 58 characters ending '...'.
C11_EllipsisWhenTooLong ==
    pc = "done" =>
        LET clean == C11_Clean
            generic == Lower(clean) \in {"introduction", "overview", "recipe", "description"}
            n == Len(display_name)
        IN  /\ (Len(clean) > max_len /\ ~ generic) =>
                  /\ n >= 3
                  /\ n <= max_len + 3
                  /\ SubSeq(display_name, n - 2, n) = "..."
                  /\ C11_BackedOff(Take(clean, max_len), Take(display_name, n - 3))
            /\ (Len(clean) <= max_len /\ ~ generic) =>
                  display_name = (IF clean = "" THEN "Untitled Recipe" ELSE clean)
            /\ (name = Repeat("xxxxxxxxxx", 10) /\ max_len = 55) =>
                  /\ n = 58
                  /\ SubSeq(display_name, n - 2, n) = "..."

\* a name of 87 characters cut at 12, in the middle of the second word, and
\* backed off to the end of the first
C11_Witness ==
    /\ pc = "done"
    /\ name = LongTitle
    /\ max_len = 12
    /\ display_name = "Slow Roast..."

\* s without the run of ':' at its end
RECURSIVE C22_DropColons(_)
C22_DropColons(s) ==
    IF s # "" /\ At(s, Len(s)) = ":" THEN C22_DropColons(Take(s, Len(s) - 1)) ELSE s

\* the name without '#' and '*', trimmed, without the colons at its end, trimmed
C22_Cleaned(n) == Strip(C22_DropColons(Strip(RemoveChars(n, {"#", "*"}))))

\* a cleaned name that no later step of _clean_display_name changes
C22_Plain(c) ==
    /\ c # ""
    /\ Len(c) <= max_len
    /\ Lower(c) \notin GenericHeaders
    /\ \A p \in AiMarkers : ~ Contains(Lower(c), p)

\* C22 as stated: _clean_display_name strips a single trailing ':', so a name
\* ending in two or more colons keeps all but the last.
C22_SingleColonStripped ==
    (pc = "done" /\ C22_Plain(C10_Cleaned(name))) => display_name = C10_Cleaned(name)

\* C22, amended: _clean_display_name strips the whole run of ':' at the end of
\* the name (once '#' and '*' are removed and the name is trimmed): a name
\* ending in two or more colons loses all of them.
C22_AllTrailingColonsStripped ==
    (pc = "done" /\ C22_Plain(C22_Cleaned(name))) =>
        /\ display_name = C22_Cleaned(name)
        /\ name = "Pho::" => display_name = "Pho"

\* a name ending in two colons
C22_Witness ==
    /\ pc = "done"
    /\ name = "Pho::"
    /\ display_name = "Pho"

\* a cleaned name that holds one of the generic words inside a longer string
C23_HeaderInLonger(c) ==
    \E h \in GenericHeaders : Contains(Lower(c), h) /\ Lower(c) # h

\* C23: _clean_display_name returns "Untitled Recipe" whenever the cleaned
\* (possibly re-extracted) name, lowercased, is exactly one of introduction,
\* overview, recipe, description, whatever the casing and the '#', '*',
\* whitespace or trailing colon around it; a name that holds one of these words
\* inside a longer string is not replaced: it is returned as cleaned, shortened
\* when longer than max_len.
C23_GenericHeadersReplaced ==
    (pc = "done" /\ name # "") =>
        /\ Lower(C22_Cleaned(name)) \in GenericHeaders => display_name = UntitledRecipe
        /\ Lower(C11_Clean) \in GenericHeaders => display_name = UntitledRecipe
        /\ C23_HeaderInLonger(C11_Clean) =>
               /\ display_name # UntitledRecipe
               /\ Len(C11_Clean) <= max_len => display_name = C11_Clean
               /\ Len(C11_Clean) > max_len => EndsWith(display_name, "...")
        /\ name \in {"#Recipe:", "*OVERVIEW*", " Recipe ", "Here's a recipe."} =>
               display_name = UntitledRecipe
        /\ (name = "*My recipe:" /\ max_len >= 9) => display_name = "My recipe"

\* a generic word in capitals between markers
C23_Witness ==
    /\ pc = "done"
    /\ name = "*OVERVIEW*"
    /\ display_name = UntitledRecipe

-----------------------------------------------------------------------------
(* Properties of the session, checked under SpecAuth *)

\* the three keys login writes
AuthKeys == {"user", "user_email", "access_token"}

\* the step is a run in which the 'Login' button called login(), and login()
\* returned False
C24_LoginFailed ==
    /\ last'.event.kind = "login"
    /\ last'.event.out \in LoginOutcomes \ {"ok"}

\* C24: AuthManager.login leaves the session untouched whenever it fails (no
\* client, the provider raises, a response without a user, a response with a
\* user and without a session): user, user_email and access_token keep their
\* values and is_authenticated() gives what it gave before the call.
C24_FailedLoginLeavesSession ==
    [][C24_LoginFailed =>
          /\ \A k \in AuthKeys : session'[k] = session[k]
          /\ is_authenticated(session') = is_authenticated(session)]_vars

\* the pages main.py offers to a logged-in user only
ProtectedPages == {"Saved Recipes", "Meal Planner"}

\* the calls of the last run that read the rows of a user
C25_Reads ==
    {i \in DOMAIN last.calls :
        last.calls[i][1] \in {"get_user_recipes", "get_meals_for_week"}}

\* after every run: a protected view was dispatched only with a user in the
\* session, and the reads were given a user id
C25_RoutedWithUser ==
    /\ last.view \in ProtectedPages => session["user"] # None
    /\ \A i \in C25_Reads : last.calls[i][2] # None
    /\ (~ rerun /\ last.view # "") => last.view = session["page"]

\* the run after a logout on a protected page
C25_FallsBack ==
    (last.event.kind = "logout" /\ session["page"] \in ProtectedPages) =>
        /\ session'["page"] = "Recipe Generator"
        /\ last'.view = "Recipe Generator"

\* C25: after any sequence of reruns, logins and logouts the page dispatch
\* routes to 'Saved Recipes' or 'Meal Planner' only when the session user is
\* set, get_user_recipes and get_meals_for_week are called only with a user id
\* that is not None, and after a logout on one of these pages the next run
\* falls back to 'Recipe Generator'.
C25_ProtectedPagesNeedUser == [] C25_RoutedWithUser /\ [][C25_FallsBack]_vars

\* the saved recipes of a logged-in user are read
C25_Witness ==
    /\ last.view = "Saved Recipes"
    /\ session["user"] = "u1"
    /\ last.calls = <<<<"get_user_recipes", "u1">>>>

\* C29: logout, from any session state, sets user, user_email and access_token
\* to None and show_saved_recipes to False, is_authenticated() is False
\* afterwards, and every other key of the session keeps its value.
C29_LogoutClearsOnlyAuth ==
    [][last'.event.kind = "logout" =>
          /\ session' = [session EXCEPT !["user"] = None,
                                         !["user_email"] = None,
                                         !["access_token"] = None,
                                         !["show_saved_recipes"] = FALSE]
          /\ ~ is_authenticated(session')]_vars

\* a logout on the planner page with a surprise recipe in the session
C29_Witness ==
    /\ last.event.kind = "logout"
    /\ session["user"] = None
    /\ session["access_token"] = None
    /\ session["page"] = "Meal Planner"
    /\ session["surprise_recipe_content"] = RecipeText

-----------------------------------------------------------------------------
(* Properties of the delete confirmation, checked under SpecDelete *)

\* the ids the last run of the step handed to delete_recipe
C26_Deleted ==
    {last'.calls[i][2] : i \in {j \in DOMAIN last'.calls :
                                    last'.calls[j][1] = "delete_recipe"}}

\* one script run, seen from the delete confirmation
C26_Step ==
    /\ \A id \in C26_Deleted : session["confirm_delete_id"] = id
    /\ (/\ session'["confirm_delete_id"] # None
        /\ "confirm_delete_id" \in DOMAIN session
        /\ session'["confirm_delete_id"] # session["confirm_delete_id"]) =>
           /\ last'.event.kind = "delete"
           /\ last'.event.arg = session'["confirm_delete_id"]
    /\ (C26_Deleted # {} /\ last'.event.out = "ok") =>
           /\ session'["confirm_delete_id"] = None
           /\ \A x \in saved_recipes' : x.id \notin C26_Deleted
    /\ (C26_Deleted # {} /\ last'.event.out = "fail") =>
           /\ session'["confirm_delete_id"] = session["confirm_delete_id"]
           /\ saved_recipes' = saved_recipes
    /\ last'.event.kind = "cancel" =>
           /\ session'["confirm_delete_id"] = None
           /\ saved_recipes' = saved_recipes
    /\ saved_recipes \ saved_recipes' # {} => C26_Deleted # {}

\* at most one id is pending
C26_OnePending ==
    "confirm_delete_id" \in DOMAIN session =>
        session["confirm_delete_id"] \in RecipeIds \cup {None}

\* C26: deleting a saved recipe takes two steps: delete_recipe(id) is called
\* only in a run where confirm_delete_id already equals id, which only a click
\* on 'Delete Recipe' in an earlier run sets; a successful delete and 'Cancel'
\* reset confirm_delete_id to None, a failed delete leaves it set, and at most
\* one id is pending at a time.
C26_DeleteTakesTwoSteps == [] C26_OnePending /\ [][C26_Step]_vars

\* the second recipe was deleted after its confirmation
C26_Witness ==
    /\ last.event.kind = "confirm"
    /\ last.event.arg = "r2"
    /\ last.event.out = "ok"
    /\ last.calls = <<<<"get_user_recipes", "u1">>, <<"delete_recipe", "r2">>>>
    /\ session["confirm_delete_id"] = None
    /\ saved_recipes = {[id |-> "r1", user_id |-> "u1"]}

-----------------------------------------------------------------------------
(* Properties of the meal planner, checked under SpecPlanner *)

\* the step is a script run: the date stays
C27_Run == today' = today

\* the week the planner shows is a Monday
C27_IsMonday ==
    "meal_planner_week_start" \in DOMAIN session =>
        session["meal_planner_week_start"] % 7 = 0

\* how a script run sets the week: the first run to the Monday of the current
\* week, the three buttons by whole weeks or to the current Monday, and no
\* other run at all
C27_Moves ==
    C27_Run =>
        LET new == session'["meal_planner_week_start"]
            monday == CHOOSE d \in (today - 6)..today : d % 7 = 0
        IN  IF "meal_planner_week_start" \notin DOMAIN session THEN new = monday
            ELSE LET old == session["meal_planner_week_start"]
                 IN  /\ last'.event.kind = "prev" => new = old - 7
                     /\ last'.event.kind = "next" => new = old + 7
                     /\ last'.event.kind = "jump" => new = monday
                     /\ last'.event.kind \notin {"prev", "next", "jump"} => new = old

\* C27: meal_planner_week_start is a Monday in every reachable state: it starts
\* as the Monday of the current week, and 'Previous Week', 'Next Week' and
\* 'Jump to Current Week' move it by whole weeks or back to the current Monday.
C27_WeekStartIsMonday == [] C27_IsMonday /\ [][C27_Moves]_vars

\* a jump to the week that began at midnight
C27_Witness ==
    /\ last.event.kind = "jump"
    /\ today = 7
    /\ session["meal_planner_week_start"] = 7

\* the last run of the step called the manager method and the call succeeded
C28_Succeeded(method) ==
    /\ \E i \in DOMAIN last'.calls : last'.calls[i][1] = method
    /\ last'.event.out # "fail"

\* the run of the step moved the planner to another week: 'Previous Week',
\* 'Next Week', or a 'Jump to Current Week' the run still offers (a click when
\* the week shown has become the current one reaches no button)
C28_Navigated ==
    \/ last'.event.kind \in {"prev", "next"}
    \/ /\ last'.event.kind = "jump"
       /\ session["meal_planner_week_start"] % 7 = 0
       /\ session["meal_planner_week_start"] \notin (today - 6)..today
    \/ /\ "meal_planner_week_start" \in DOMAIN session
       /\ session'["meal_planner_week_start"] # session["meal_planner_week_start"]

-----------------------------------------------------------------------------
(* SavedRecipesManager.filter_recipes, src/saved_recipes.py:170-219 *)

\* recipes[i] for the i that pass Keep, in order: [r for r in recipes if ...]
RECURSIVE Comprehension(_, _)
Comprehension(recipes, keep) ==
    IF recipes = <<>> THEN <<>>
    ELSE (IF keep[1] THEN <<Head(recipes)>> ELSE <<>>)
            \o Comprehension(Tail(recipes), Tail(keep))

\* value in list
InList(value, list) == \E i \in DOMAIN list : list[i] = value

\* st.session_state.recipe_filters.get('favorites_only', False)
FavoritesOnly(filters) ==
    IF "favorites_only" \in DOMAIN filters THEN filters["favorites_only"] ELSE FALSE

\* filter_recipes without its last filter
filter_recipes_SkipsFavorites(recipes, filters) ==
    LET search_query == Lower(filters["search_query"])
        by_search ==
            IF search_query # ""
            THEN Comprehension(recipes,
                    [i \in DOMAIN recipes |->
                        \/ Contains(Lower(recipes[i].recipe_name), search_query)
                        \/ Contains(Lower(recipes[i].recipe_content), search_query)])
            ELSE recipes
        by_cuisine ==
            IF filters["selected_cuisines"] # <<>>
            THEN Comprehension(by_search,
                    [i \in DOMAIN by_search |->
                        InList(by_search[i].cuisine, filters["selected_cuisines"])])
            ELSE by_search
    IN  by_cuisine

\* filter_recipes: each active filter in turn, on the list the one before left
filter_recipes(recipes, filters) ==
    LET search_query == Lower(filters["search_query"])
        by_search ==
            IF search_query # ""
            THEN Comprehension(recipes,
                    [i \in DOMAIN recipes |->
                        \/ Contains(Lower(recipes[i].recipe_name), search_query)
                        \/ Contains(Lower(recipes[i].recipe_content), search_query)])
            ELSE recipes
        by_cuisine ==
            IF filters["selected_cuisines"] # <<>>
            THEN Comprehension(by_search,
                    [i \in DOMAIN by_search |->
                        InList(by_search[i].cuisine, filters["selected_cuisines"])])
            ELSE by_search
        by_meal_type ==
            IF filters["selected_meal_types"] # <<>>
            THEN Comprehension(by_cuisine,
                    [i \in DOMAIN by_cuisine |->
                        InList(by_cuisine[i].meal_type, filters["selected_meal_types"])])
            ELSE by_cuisine
        by_complexity ==
            IF filters["selected_complexity"] # <<>>
            THEN Comprehension(by_meal_type,
                    [i \in DOMAIN by_meal_type |->
                        InList(by_meal_type[i].complexity, filters["selected_complexity"])])
            ELSE by_meal_type
        by_dietary ==
            IF filters["selected_dietary"] # <<>>
            THEN Comprehension(by_complexity,
                    [i \in DOMAIN by_complexity |->
                        /\ by_complexity[i].dietary_tags # <<>>
                        /\ \E t \in DOMAIN filters["selected_dietary"] :
                              InList(filters["selected_dietary"][t],
                                     by_complexity[i].dietary_tags)])
            ELSE by_complexity
        by_method ==
            IF filters["selected_cooking_methods"] # <<>>
            THEN Comprehension(by_dietary,
                    [i \in DOMAIN by_dietary |->
                        InList(by_dietary[i].cooking_method,
                               filters["selected_cooking_methods"])])
            ELSE by_dietary
    IN  IF FavoritesOnly(filters)
        THEN Comprehension(by_method,
                [i \in DOMAIN by_method |-> by_method[i].is_favorite])
        ELSE by_method

\* the rows of saved_recipes the model hands to filter_recipes; the surprise
\* recipe is saved without cuisine, complexity and cooking method, and a
\* missing dietary_tags or is_favorite counts like an empty list and False
RecipePool ==
    {[recipe_name |-> "Pho", recipe_content |-> "Rice noodles in broth",
      cuisine |-> "Vietnamese", meal_type |-> "Dinner", complexity |-> "Easy",
      dietary_tags |-> <<"Gluten-Free">>, cooking_method |-> "Stovetop",
      is_favorite |-> TRUE],
     [recipe_name |-> "Thai Green Curry", recipe_content |-> "Serve with rice",
      cuisine |-> "Thai", meal_type |-> "Dinner", complexity |-> "Medium",
      dietary_tags |-> <<"Vegan", "Gluten-Free">>, cooking_method |-> "Stovetop",
      is_favorite |-> FALSE],
     [recipe_name |-> "Untitled Recipe", recipe_content |-> "# Photo roast",
      cuisine |-> None, meal_type |-> "Dinner", complexity |-> None,
      dietary_tags |-> <<>>, cooking_method |-> None,
      is_favorite |-> FALSE],
     [recipe_name |-> "Grilled Cheese", recipe_content |-> "Butter the bread",
      cuisine |-> "American", meal_type |-> "Lunch", complexity |-> "Easy",
      dietary_tags |-> <<"Vegetarian">>, cooking_method |-> "Grill",
      is_favorite |-> TRUE]}

\* the lists of at most n recipes
RecipeLists(n) == UNION {[1..k -> RecipePool] : k \in 0..n}

\* the filter states: the dictionary of _initialize_filter_state with the
\* values the sidebar widgets give it, with and without 'favorites_only'
FilterStates ==
    LET plain ==
            [search_query : {"", "pho", "RICE", "zzz"},
             selected_cuisines : {<<>>, <<"Thai">>, <<"Thai", "Vietnamese">>},
             selected_meal_types : {<<>>, <<"Dinner">>},
             selected_complexity : {<<>>, <<"Easy">>},
             selected_dietary : {<<>>, <<"Vegan", "Vegetarian">>},
             selected_cooking_methods : {<<>>, <<"Grill">>},
             sort_by : {"Date (Newest First)"}]
    IN  plain \cup {Put(f, "favorites_only", b) : f \in plain, b \in BOOLEAN}

InitFilter ==
    /\ pc = "ready"
    /\ all_recipes \in RecipeLists(MaxRecipeList)
    /\ session \in {[recipe_filters |-> f] : f \in FilterStates}
    /\ filtered_recipes = <<>>
    /\ saved_recipes = {}
    /\ meal_plans = {}
    /\ today = 0
    /\ screen = {}
    /\ rerun = FALSE
    /\ last = NoRun
    /\ recipe_content = ""
    /\ recipe_name = ""
    /\ recipe_card_content = ""
    /\ html_lines = <<>>
    /\ full_html = ""
    /\ name = ""
    /\ max_len = 0
    /\ display_name = ""
    /\ frames = <<>>

\* filtered_recipes = self.filter_recipes(all_recipes)
FilterRecipes ==
    /\ pc = "ready"
    /\ filtered_recipes' = filter_recipes(all_recipes, session["recipe_filters"])
    /\ pc' = "done"
    /\ UNCHANGED <<all_recipes, session, saved_recipes, meal_plans, today,
                   screen, rerun, last>>
    /\ UNCHANGED <<recipe_content, recipe_name, recipe_card_content, html_lines,
                   full_html, name, max_len, display_name, frames>>

NextFilter == FilterRecipes

SpecFilter == InitFilter /\ [][NextFilter]_vars

-----------------------------------------------------------------------------
(* Properties of filter_recipes, checked under SpecFilter *)

\* a is b with some elements left out, the others in the order of b
RECURSIVE C30_IsSubList(_, _)
C30_IsSubList(a, b) ==
    IF a = <<>> THEN TRUE
    ELSE IF b = <<>> THEN FALSE
    ELSE IF Head(a) = Head(b) THEN C30_IsSubList(Tail(a), Tail(b))
    ELSE C30_IsSubList(a, Tail(b))

\* the set of the values of a list
C30_Values(list) == {list[i] : i \in DOMAIN list}

\* the recipe passes every filter that is active in f
C30_Satisfies(r, f) ==
    /\ f["search_query"] # "" =>
           \/ Contains(Lower(r.recipe_name), Lower(f["search_query"]))
           \/ Contains(Lower(r.recipe_content), Lower(f["search_query"]))
    /\ f["selected_cuisines"] # <<>> => r.cuisine \in C30_Values(f["selected_cuisines"])
    /\ f["selected_meal_types"] # <<>> =>
           r.meal_type \in C30_Values(f["selected_meal_types"])
    /\ f["selected_complexity"] # <<>> =>
           r.complexity \in C30_Values(f["selected_complexity"])
    /\ f["selected_dietary"] # <<>> =>
           C30_Values(r.dietary_tags) \cap C30_Values(f["selected_dietary"]) # {}
    /\ f["selected_cooking_methods"] # <<>> =>
           r.cooking_method \in C30_Values(f["selected_cooking_methods"])
    /\ ("favorites_only" \in DOMAIN f /\ f["favorites_only"]) => r.is_favorite

\* no filter is active in f
C30_NoneActive(f) ==
    /\ f["search_query"] = ""
    /\ f["selected_cuisines"] = <<>>
    /\ f["selected_meal_types"] = <<>>
    /\ f["selected_complexity"] = <<>>
    /\ f["selected_dietary"] = <<>>
    /\ f["selected_cooking_methods"] = <<>>
    /\ ~ ("favorites_only" \in DOMAIN f /\ f["favorites_only"])

\* the list filter_recipes returned
C30_Result ==
    pc = "done" =>
        LET f == session["recipe_filters"]
        IN  /\ C30_IsSubList(filtered_recipes, all_recipes)
            /\ \A i \in DOMAIN filtered_recipes : C30_Satisfies(filtered_recipes[i], f)
            /\ C30_NoneActive(f) => filtered_recipes = all_recipes

\* C30: filter_recipes returns, for every recipe list and every filter state,
\* an order-preserving sub-list of its input in which every recipe satisfies
\* all active filters together (search text in name or content, cuisine, meal
\* type, complexity, at least one selected dietary tag, cooking method,
\* favourites only); with no active filter it returns the input unchanged, and
\* it never modifies the input list or the filter state.
C30_FilterIsSubList ==
    [] C30_Result /\ [][all_recipes' = all_recipes /\ session' = session]_vars

\* the favourite among two recipes that match the search text
C30_Witness ==
    /\ pc = "done"
    /\ Len(all_recipes) = 2
    /\ all_recipes[1].recipe_name = "Untitled Recipe"
    /\ all_recipes[2].recipe_name = "Pho"
    /\ session["recipe_filters"]["search_query"] = "pho"
    /\ FavoritesOnly(session["recipe_filters"])
    /\ filtered_recipes = <<all_recipes[2]>>

====
